---- MODULE Spec2Model ----
(***************************************************************************)
(* Lumina Study Buddy: the playback engine and session orchestrator of     *)
(* src/App.tsx and the backoff executor of src/services/geminiService.ts.  *)
(*                                                                         *)
(* The specifications of the module, one per concern:                      *)
(*   SpecRetry     one call of retryWithBackoff around one of its three    *)
(*                 callers' operations, the service's answers drawn per    *)
(*                 invocation;                                             *)
(*   SpecCompact   the history compaction of one chat request, as far as   *)
(*                 the streaming request or the handler's catch;           *)
(*   Spec          the playback engine of the App component: React state,  *)
(*                 refs, the audio graph, the speech engine and the        *)
(*                 asynchronous continuations in flight;                   *)
(*   SpecOrch      the form, the generation call and the sidebar;          *)
(*   SpecSessions  the session list under the session menu and a           *)
(*                 generation in flight;                                   *)
(*   SpecFallback  the quota fallback of the audio prefetch;               *)
(*   SpecChat      the chat exchange and its stream;                       *)
(*   SpecWords     word segments and the boundary events of an utterance;  *)
(*   SpecQuiz      the Quiz component: shuffling, answering, retaking;     *)
(*   SpecDevice    the premium lock on devices with and without a          *)
(*                 qualifying local voice, under fair settling.            *)
(*                                                                         *)
(* React closures: a handler reads the state of the render that created    *)
(* it.  A handler run from a click reads the current state; a continuation *)
(* after an await, a timer or a device callback reads the state captured   *)
(* when its handler was started, while every setter and every ref acts on  *)
(* the current state.  Captured state travels in "cap" records.            *)
(***************************************************************************)
EXTENDS Integers, Sequences, FiniteSets, TLC

VARIABLES
    \* ---- retryWithBackoff (geminiService.ts:13-30), one call
    rCaller,      \* which exported function wrapped its operation
    rPc,          \* "call" | "wait" | "returned" | "thrown"
    rI,           \* loop counter i
    rDelay,       \* let delay
    rCalls,       \* number of invocations of fn so far
    rWaits,       \* the delays waited so far, in order
    rHist,        \* the service's answers so far, in order
    rResult,      \* the value returned or the error thrown
    \* ---- App.tsx: React state
    state,                  \* AppState
    notes,                  \* the notes textarea
    selectedFile,           \* TRUE when a PDF is selected
    studyData,              \* 0 = null, else the guide held
    error,                  \* TRUE when an error message is shown
    savedSessions,          \* sequence of session records, newest first
    activeSessionId,        \* 0 = null
    activeMode,             \* "none" | "premium" | "active"
    playbackState,          \* "idle" | "playing" | "paused"
    prefetchedBuffer,       \* 0 = null, else the guide whose summary was synthesized
    isPremiumLocked,
    isPremiumUnavailable,
    currentWordIndex,       \* NoWord = null
    chatLog,                \* sequence of turns [role, content]
    chatInput,              \* the chat input field
    isChatLoading,
    renamingId,             \* 0 = null, else the session being renamed
    renameValue,            \* the rename input field
    \* ---- App.tsx: refs
    sourceRef,              \* 0 = null, else a node of the audio graph
    elapsed,                \* ctx.currentTime - startTimeRef.current, in ticks, while
                            \* sourceRef is set (nothing reads startTimeRef otherwise)
    playedOffsetRef,
    \* ---- collaborators
    nodes,                  \* the AudioBufferSourceNodes of the audio graph
    synth,                  \* window.speechSynthesis: paused flag and its utterance
    hasPremiumLocal,        \* getVoices() holds an en-US Natural/Google voice
    deviceVoices,           \* the device's voice list, once loaded, holds such a voice
    store,                  \* localStorage 'lumina_history_v2': the list last written
    \* ---- continuations in flight
    gens,                   \* handleSubmit calls awaiting processLectureNotes
    prefetches,             \* prefetchAudio calls awaiting generateSpeech
    timers,                 \* fallback timers set and not yet fired (App.tsx:234)
    chat,                   \* the handleSendChatMessage call in flight
    \* ---- one boundary event on one summary text (App.tsx:200-213, 367-372)
    wText,                  \* studyData.summary, as its characters
    wChar,                  \* event.charIndex of the last word event, NoWord before
    \* ---- the Quiz component (components/Quiz.tsx:22-27)
    questions,              \* the questions prop (studyData.quiz)
    shuffledQuestions,
    currentQuestionIndex,
    selectedAnswers,        \* question index -> option index chosen
    showResults,
    \* ---- history compaction of one askQuestionAboutDocumentStream call
    \* (geminiService.ts:146-155 and 35-49)
    cHistory,               \* the history argument
    cPc,                    \* "start" | "summarizing" | "built" | "failed" |
                            \* "requested" | "caught"
    cSummarized,            \* conversation lines sent for summarization, <<>> = no request
    cProcessed,             \* processedHistory as mapped into contents (169-173)
    cDigest,                \* what summarizeOldHistory returned, <<>> = ""
    cContext,               \* backgroundContext
    cQuestion,              \* the question argument
    cContents,              \* contents of the streaming request (169-181), <<>> = none built
    \* ---- bookkeeping of the checks (no counterpart in the code)
    nextId,                 \* session ids handed out so far (Date.now() is fresh each time)
    expected,               \* the session list had every write used the list of its moment
    noops,                  \* handler calls that returned at their first guard
    sent,                   \* chat exchanges started
    playedSum               \* clock time spent in the premium segments since playback began at offset 0

retryVars == <<rCaller, rPc, rI, rDelay, rCalls, rWaits, rHist, rResult>>

orchVars == <<state, notes, selectedFile, studyData, error, savedSessions, activeSessionId>>

flagVars == <<prefetchedBuffer, isPremiumLocked, isPremiumUnavailable>>

engineVars == <<activeMode, playbackState, currentWordIndex, sourceRef, elapsed,
                playedOffsetRef, nodes, synth, playedSum>>

envVars == <<hasPremiumLocal, deviceVoices>>

flightVars == <<gens, prefetches, timers, nextId>>

chatVars == <<chatLog, chatInput, isChatLoading, chat>>

sideVars == <<renamingId, renameValue>>

storeVars == <<store, expected, noops, sent>>

wordVars == <<wText, wChar>>

quizVars == <<questions, shuffledQuestions, currentQuestionIndex, selectedAnswers,
              showResults>>

compactVars == <<cHistory, cPc, cSummarized, cProcessed, cDigest, cContext, cQuestion,
                 cContents>>

appVars == <<orchVars, flagVars, engineVars, envVars, flightVars, chatVars, sideVars,
             storeVars, wordVars, quizVars>>

\* What the playback handlers and the collaborators' events leave alone.
restVars == <<retryVars, compactVars, chatVars, sideVars, storeVars, wordVars, quizVars>>

vars == <<retryVars, appVars, compactVars>>

(***************************************************************************)
(* Bounds of the model                                                     *)
(***************************************************************************)

MaxGuide == 2        \* distinct guides the service can return
MaxTime == 3         \* ticks of the audio clock counted into one played offset
MaxNodes == 2        \* source nodes alive at once
MaxGen == 1          \* handleSubmit calls in flight at once
MaxPrefetch == 1     \* prefetchAudio calls awaiting their answer at once
MaxTimer == 1        \* fallback timers pending at once
MaxSessions == 2     \* sessions created in one run
MaxHistory == 12     \* turns of the history handed to one chat request
MaxTurns == 6        \* turns of one chat log
MaxExchanges == 2    \* chat exchanges started in one run
MaxQuiz == 2         \* questions of one quiz
MaxOptions == 3      \* options of one question
MaxChunks == 2       \* chunks of one chat stream
MaxText == 4         \* characters of a summary text
MaxNoop == 1         \* handler calls counted that returned at their first guard
BufferTicks == 2     \* duration of a decoded buffer, in ticks

Guides == 1..MaxGuide
Modes == {"none", "premium", "active"}
PlaybackStates == {"idle", "playing", "paused"}
NoWord == 0 - 1
Notes == {"", " ", "n"}

\* A trim that removes nothing.
trimNothing(text) == text

\* notes.trim(): the text with leading and trailing whitespace removed
trim(text) == IF text = " " THEN "" ELSE text

\* The summary of a guide, as its characters.
Summary(data) ==
    IF data = 1 THEN <<"a", "b", " ", "c">>
                ELSE <<" ", "x", "y">>

\* buffer.duration
Duration(buffer) == BufferTicks

(***************************************************************************)
(* Word segments (App.tsx:200-213) and the boundary lookup (367-372)       *)
(***************************************************************************)

RECURSIVE ScanWords(_, _, _, _)
\* regex /\S+/g over text: i is the next character (1-based), open the first
\* character of the run being read (0 = none), acc the segments pushed so far.
\* start is match.index (0-based) and end is match.index + match[0].length.
ScanWords(text, i, open, acc) ==
    IF i > Len(text)
    THEN IF open = 0 THEN acc
         ELSE Append(acc, [text |-> SubSeq(text, open, Len(text)),
                           start |-> open - 1, end |-> Len(text)])
    ELSE IF text[i] = " "
         THEN IF open = 0 THEN ScanWords(text, i + 1, 0, acc)
              ELSE ScanWords(text, i + 1, 0,
                             Append(acc, [text |-> SubSeq(text, open, i - 1),
                                          start |-> open - 1, end |-> i - 1]))
         ELSE ScanWords(text, i + 1, IF open = 0 THEN i ELSE open, acc)

\* wordSegments for the summary text
wordSegmentsOf(text) == ScanWords(text, 1, 0, <<>>)

wordSegments(data) == IF data = 0 THEN <<>> ELSE ScanWords(Summary(data), 1, 0, <<>>)

\* A lookup that takes a segment's end offset as outside the segment.
findIndexHalfOpen(segs, charIndex) ==
    LET hits == {k \in 1..Len(segs) : charIndex >= segs[k].start /\ charIndex < segs[k].end}
    IN IF hits = {} THEN 0 - 1
       ELSE (CHOOSE k \in hits : \A j \in hits : k <= j) - 1

\* wordSegments.findIndex(seg => charIndex >= seg.start && charIndex <= seg.end)
findIndex(segs, charIndex) ==
    LET hits == {k \in 1..Len(segs) : charIndex >= segs[k].start /\ charIndex <= segs[k].end}
    IN IF hits = {} THEN 0 - 1
       ELSE (CHOOSE k \in hits : \A j \in hits : k <= j) - 1

(***************************************************************************)
(* The playback engine as a value: React playback state, the refs, the     *)
(* audio graph and the speech engine.  The handlers below map an engine    *)
(* and the captured state c of the render that created the handler to the  *)
(* engine they leave behind.                                               *)
(***************************************************************************)

\* A source node: the buffer and offset its start() was given, the ticks since
\* that call (age), the ticks of buffer still to play (left), and the
\* test `activeMode === 'premium' && playbackState === 'playing'` of its onended
\* handler, on the values the handler captured (capLive).
FreeNode == [playing |-> FALSE, buffer |-> 0, offset |-> 0, age |-> 0, left |-> 0,
             onended |-> FALSE, capLive |-> FALSE]

NoUtterance(paused) == [paused |-> paused, utt |-> "none", text |-> 0, capActive |-> FALSE]

World == [activeMode |-> activeMode, playbackState |-> playbackState,
          currentWordIndex |-> currentWordIndex, sourceRef |-> sourceRef,
          elapsed |-> elapsed, playedOffsetRef |-> playedOffsetRef,
          nodes |-> nodes, synth |-> synth, playedSum |-> playedSum]

Commit(w) ==
    /\ activeMode' = w.activeMode
    /\ playbackState' = w.playbackState
    /\ currentWordIndex' = w.currentWordIndex
    /\ sourceRef' = w.sourceRef
    /\ elapsed' = w.elapsed
    /\ playedOffsetRef' = w.playedOffsetRef
    /\ nodes' = w.nodes
    /\ synth' = w.synth
    /\ playedSum' = w.playedSum

\* The state a handler created by the current render has captured.
Cur == [mode |-> activeMode, pstate |-> playbackState, data |-> studyData,
        buffer |-> prefetchedBuffer, locked |-> isPremiumLocked,
        unavail |-> isPremiumUnavailable]

\* What a continuation keeps of it for toggleActiveReader, which reads
\* playbackState only when activeMode is 'active' and studyData only otherwise.
EngineCap(c) == [mode |-> c.mode,
                 pstate |-> IF c.mode = "active" THEN c.pstate ELSE "idle",
                 data |-> IF c.mode = "active" THEN 0 ELSE c.data]

\* App.tsx:267-280
stopAllPlayback(w) ==
    [w EXCEPT !.synth = NoUtterance(w.synth.paused),
              !.nodes = IF w.sourceRef # 0
                        THEN [w.nodes EXCEPT ![w.sourceRef] = FreeNode]
                        ELSE w.nodes,
              !.sourceRef = 0,
              !.elapsed = 0,
              !.playedOffsetRef = 0,
              !.playbackState = "idle",
              !.activeMode = "none",
              !.currentWordIndex = NoWord,
              !.playedSum = 0]

\* App.tsx:331-349
playFromBuffer(w, c, buffer, offset) ==
    LET free == {n \in 1..MaxNodes : ~w.nodes[n].playing}
        n == IF free = {} THEN 0 ELSE CHOOSE m \in free : \A k \in free : m <= k
        from == offset % Duration(buffer)
    IN  IF free = {} THEN w
        ELSE [w EXCEPT !.nodes[n] = [playing |-> TRUE, buffer |-> buffer, offset |-> from,
                                     age |-> 0, left |-> Duration(buffer) - from,
                                     onended |-> TRUE,
                                     capLive |-> (c.mode = "premium"
                                                  /\ c.pstate = "playing")],
                       !.sourceRef = n,
                       !.elapsed = 0,
                       !.playbackState = "playing"]

\* A pause that stores the elapsed time of the last segment alone.
pausePremiumOverwrite(w) ==
    IF w.sourceRef = 0 THEN w
    ELSE [w EXCEPT !.playedOffsetRef = w.elapsed,
                   !.playedSum = @ + w.nodes[w.sourceRef].age,
                   !.nodes[w.sourceRef] = FreeNode,
                   !.sourceRef = 0,
                   !.elapsed = 0,
                   !.playbackState = "paused"]

\* App.tsx:288-298, the pause branch
pausePremium(w) ==
    IF w.sourceRef = 0 THEN w
    ELSE [w EXCEPT !.playedOffsetRef = @ + w.elapsed,
                   !.playedSum = @ + w.nodes[w.sourceRef].age,
                   !.nodes[w.sourceRef] = FreeNode,
                   !.sourceRef = 0,
                   !.elapsed = 0,
                   !.playbackState = "paused"]

\* togglePremiumVoice reaches App.tsx:312 (its own synthesis request)
ColdStart(c) ==
    /\ ~(c.locked \/ c.unavail)
    /\ ~(c.mode = "premium" /\ c.pstate = "playing")
    /\ ~(c.mode = "premium" /\ c.pstate = "paused" /\ c.buffer # 0)
    /\ c.data # 0
    /\ c.buffer = 0

\* togglePremiumVoice reaches a playFromBuffer (App.tsx:300 or 308).
PlaysBuffer(c) ==
    /\ ~(c.locked \/ c.unavail)
    /\ ~(c.mode = "premium" /\ c.pstate = "playing")
    /\ c.buffer # 0
    /\ (c.mode = "premium" /\ c.pstate = "paused") \/ c.data # 0

\* The audio graph has room for one more source node.
NodeAvailable(w) == \E n \in 1..MaxNodes : ~w.nodes[n].playing

\* App.tsx:282-310
\* A togglePremiumVoice whose guard tests the lock alone.
togglePremiumLockOnly(w, c) ==
    LET w1 == IF c.mode = "active" THEN stopAllPlayback(w) ELSE w IN
    IF c.locked THEN w
    ELSE IF c.mode = "premium" /\ c.pstate = "playing" THEN pausePremium(w1)
    ELSE IF c.mode = "premium" /\ c.pstate = "paused" /\ c.buffer # 0
         THEN playFromBuffer(w1, c, c.buffer, w1.playedOffsetRef)
    ELSE IF c.data = 0 THEN w1
    ELSE LET w2 == [w1 EXCEPT !.activeMode = "premium"] IN
         IF c.buffer # 0
         THEN playFromBuffer([w2 EXCEPT !.playedSum = 0], c, c.buffer, 0)
         ELSE w2

togglePremiumVoice(w, c) ==
    LET w1 == IF c.mode = "active" THEN stopAllPlayback(w) ELSE w IN
    IF c.locked \/ c.unavail THEN w
    ELSE IF c.mode = "premium" /\ c.pstate = "playing" THEN pausePremium(w1)
    ELSE IF c.mode = "premium" /\ c.pstate = "paused" /\ c.buffer # 0
         THEN playFromBuffer(w1, c, c.buffer, w1.playedOffsetRef)
    ELSE IF c.data = 0 THEN w1
    ELSE LET w2 == [w1 EXCEPT !.activeMode = "premium"] IN
         IF c.buffer # 0
         THEN playFromBuffer([w2 EXCEPT !.playedSum = 0], c, c.buffer, 0)
         ELSE w2

\* App.tsx:351-378
toggleActiveReader(w, c) ==
    LET w1 == IF c.mode = "premium" THEN stopAllPlayback(w) ELSE w IN
    IF c.mode = "active"
    THEN IF c.pstate = "playing"
         THEN [w1 EXCEPT !.synth.paused = TRUE, !.playbackState = "paused"]
         ELSE IF c.pstate = "paused"
              THEN [w1 EXCEPT !.synth.paused = FALSE, !.playbackState = "playing"]
              ELSE w1
    ELSE IF c.data = 0 THEN w1
    ELSE [w1 EXCEPT !.activeMode = "active",
                    !.synth = [paused |-> w1.synth.paused, utt |-> "pending",
                               text |-> c.data, capActive |-> (c.mode = "active")]]

\* A checkVoices that unlocks on the voice list alone.
checkVoicesAnyBuffer(voicesOk, buffer, unavail, locked) ==
    IF voicesOk /\ ~unavail THEN FALSE ELSE locked

\* App.tsx:109-118, with the values its effect captured
checkVoices(voicesOk, buffer, unavail, locked) ==
    IF voicesOk /\ buffer # 0 /\ ~unavail THEN FALSE ELSE locked

\* App.tsx:108-126: the effect runs again, and calls checkVoices, when
\* prefetchedBuffer or isPremiumUnavailable changed in the render.
AfterRender(bufferChanged, buffer, unavail, locked) ==
    IF bufferChanged \/ unavail # isPremiumUnavailable
    THEN checkVoices(hasPremiumLocal, buffer, unavail, locked)
    ELSE locked

(***************************************************************************)
(* The App component                                                       *)
(***************************************************************************)

IdleGen == [st |-> "free", notes |-> "", file |-> FALSE, sessions |-> <<>>,
            cap |-> [mode |-> "none", pstate |-> "idle", data |-> 0]]

IdlePrefetch == [st |-> "free", text |-> 0,
                 cap |-> [mode |-> "none", pstate |-> "idle", data |-> 0]]

\* No handleSendChatMessage call is awaiting its request or its stream.
IdleChat == [st |-> "free", userMsg |-> <<>>, newChatLog |-> <<>>, fullAnswer |-> <<>>,
             deltas |-> <<>>, sessions |-> <<>>, sid |-> 0, own |-> FALSE]

IdleTimer == [st |-> "free", cap |-> [mode |-> "none", pstate |-> "idle", data |-> 0]]

\* The chat log of a stored session: one exchange, answered with text.
StoredLog(text) == <<[role |-> "user", content |-> <<"p">>],
                     [role |-> "model", content |-> <<text>>]>>

\* The sessions found in localStorage when the component mounts
\* (App.tsx:96-105), newest first, each with the log of an earlier exchange.
StoredSessions == <<[id |-> 2, data |-> 2, notes |-> "n", chatLog |-> StoredLog("a"),
                     isPinned |-> FALSE, title |-> "T"],
                    [id |-> 1, data |-> 1, notes |-> "n", chatLog |-> StoredLog("b"),
                     isPinned |-> FALSE, title |-> "T"]>>

\* The component as mounted, on a device whose voice list holds (device) or
\* does not hold a qualifying voice.
AppStartOn(sessions, voicesOk, device) ==
    /\ state = "IDLE"
    /\ notes = ""
    /\ selectedFile = FALSE
    /\ studyData = 0
    /\ error = FALSE
    /\ savedSessions = sessions
    /\ activeSessionId = 0
    /\ activeMode = "none"
    /\ playbackState = "idle"
    /\ prefetchedBuffer = 0
    /\ isPremiumLocked = TRUE
    /\ isPremiumUnavailable = FALSE
    /\ currentWordIndex = NoWord
    /\ chatLog = <<>>
    /\ chatInput = <<>>
    /\ isChatLoading = FALSE
    /\ renamingId = 0
    /\ renameValue = ""
    /\ store = sessions
    /\ chat = IdleChat
    /\ expected = sessions
    /\ noops = 0
    /\ sent = 0
    /\ sourceRef = 0
    /\ elapsed = 0
    /\ playedOffsetRef = 0
    /\ nodes = [n \in 1..MaxNodes |-> FreeNode]
    /\ synth = NoUtterance(FALSE)
    /\ hasPremiumLocal = voicesOk
    /\ deviceVoices = device
    /\ gens = [k \in 1..MaxGen |-> IdleGen]
    /\ prefetches = [p \in 1..MaxPrefetch |-> IdlePrefetch]
    /\ timers = [t \in 1..MaxTimer |-> IdleTimer]
    /\ nextId = Len(sessions)
    /\ playedSum = 0

\* On a device with a qualifying voice.
AppStart(sessions, voicesOk) == AppStartOn(sessions, voicesOk, TRUE)

\* No boundary event is observed on its own.
WordsIdle == wText = <<>> /\ wChar = NoWord

\* selectedAnswers = {}: no question has an answer (0 - 1 is undefined).
NoAnswers == [k \in 0..(MaxQuiz - 1) |-> 0 - 1]

\* No Quiz is mounted.
QuizIdle ==
    /\ questions = <<>>
    /\ shuffledQuestions = <<>>
    /\ currentQuestionIndex = 0
    /\ selectedAnswers = NoAnswers
    /\ showResults = FALSE

AppIdle == AppStart(<<>>, FALSE) /\ WordsIdle /\ QuizIdle

\* getVoices() is still empty when the component mounts.
AppInit == AppStart(StoredSessions, FALSE) /\ WordsIdle /\ QuizIdle

FreeSlots(f) == {k \in DOMAIN f : f[k].st = "free"}

FirstFree(f) == CHOOSE k \in FreeSlots(f) : \A j \in FreeSlots(f) : k <= j

\* App.tsx:215-217 and 222: prefetchAudio as far as its first await, called by a
\* handler that captured c
StartPrefetch(f, text, c) ==
    [f EXCEPT ![FirstFree(f)] = [st |-> "inflight", text |-> text, cap |-> EngineCap(c)]]

\* ---- the form (rendered while state is IDLE or ERROR, App.tsx:719-747)

FormShown == state \in {"IDLE", "ERROR"}

SetNotes(text) ==
    /\ FormShown
    /\ notes # text
    /\ notes' = text
    /\ UNCHANGED <<state, selectedFile, studyData, error, savedSessions, activeSessionId,
                   flagVars, engineVars, envVars, flightVars, restVars>>

\* App.tsx:239-254
handleFileChange(isPdf) ==
    /\ FormShown
    /\ IF isPdf THEN selectedFile' = TRUE /\ error' = FALSE
                ELSE selectedFile' = selectedFile /\ error' = TRUE
    /\ UNCHANGED <<state, notes, studyData, savedSessions, activeSessionId,
                   flagVars, engineVars, envVars, flightVars, restVars>>

\* App.tsx:733, the x beside the file name
ClearFile ==
    /\ FormShown
    /\ selectedFile
    /\ selectedFile' = FALSE
    /\ UNCHANGED <<state, notes, studyData, error, savedSessions, activeSessionId,
                   flagVars, engineVars, envVars, flightVars, restVars>>

\* App.tsx:510-511: handleSubmit returns at its guard
BlankSubmit ==
    /\ FormShown
    /\ trim(notes) = "" /\ ~selectedFile
    /\ noops < MaxNoop
    /\ noops' = noops + 1
    /\ UNCHANGED <<orchVars, flagVars, engineVars, envVars, flightVars, chatVars,
                   sideVars, store, expected, sent, wordVars, quizVars, retryVars, compactVars>>

\* App.tsx:510-519 and 521-522: handleSubmit as far as its await
handleSubmit ==
    /\ FormShown
    /\ ~(trim(notes) = "" /\ ~selectedFile)
    /\ FreeSlots(gens) # {}
    /\ state' = "LOADING"
    /\ chatLog' = <<>>
    /\ error' = FALSE
    /\ prefetchedBuffer' = 0
    /\ isPremiumUnavailable' = FALSE
    /\ isPremiumLocked' = AfterRender(prefetchedBuffer # 0, 0, FALSE, TRUE)
    /\ activeSessionId' = 0
    /\ Commit(stopAllPlayback(World))
    /\ gens' = [gens EXCEPT ![FirstFree(gens)] =
                    [st |-> "inflight", notes |-> notes, file |-> selectedFile,
                     sessions |-> savedSessions, cap |-> EngineCap(Cur)]]
    /\ UNCHANGED <<notes, selectedFile, studyData, savedSessions, prefetches, timers,
                   nextId, envVars, chatInput, isChatLoading, chat, sideVars, storeVars,
                   wordVars, quizVars, retryVars, compactVars>>

\* A session record that is created pinned.
NewSessionPinned(id, data, originalNotes) ==
    [id |-> id, data |-> data, notes |-> originalNotes, chatLog |-> <<>>,
     isPinned |-> TRUE, title |-> "T"]

\* App.tsx:138-147: newSession
NewSession(id, data, originalNotes) ==
    [id |-> id, data |-> data, notes |-> originalNotes, chatLog |-> <<>>,
     isPinned |-> FALSE, title |-> "T"]

\* App.tsx:523-526 with saveSessionToHistory (137-152): processLectureNotes
\* resolved with guide data
GenSuccess(k, data) ==
    /\ gens[k].st = "inflight"
    /\ FreeSlots(prefetches) # {}
    /\ nextId < MaxSessions
    /\ studyData' = data
    /\ state' = "SUCCESS"
    /\ isPremiumUnavailable' = FALSE
    /\ isPremiumLocked' = AfterRender(FALSE, prefetchedBuffer, FALSE, TRUE)
    /\ prefetches' = StartPrefetch(prefetches, data, gens[k].cap)
    /\ nextId' = nextId + 1
    /\ LET newSession == NewSession(nextId + 1, data, gens[k].notes)
       IN /\ savedSessions' = <<newSession>> \o gens[k].sessions
          /\ store' = <<newSession>> \o gens[k].sessions
          /\ expected' = <<newSession>> \o expected
    /\ activeSessionId' = nextId + 1
    /\ gens' = [gens EXCEPT ![k] = IdleGen]
    /\ UNCHANGED <<notes, selectedFile, error, prefetchedBuffer, engineVars, envVars,
                   timers, chatVars, sideVars, noops, sent, wordVars, quizVars, retryVars, compactVars>>

\* App.tsx:527-530
GenFailure(k) ==
    /\ gens[k].st = "inflight"
    /\ error' = TRUE
    /\ state' = "ERROR"
    /\ gens' = [gens EXCEPT ![k] = IdleGen]
    /\ UNCHANGED <<notes, selectedFile, studyData, savedSessions, activeSessionId,
                   flagVars, engineVars, envVars, prefetches, timers, nextId,
                   restVars>>

\* App.tsx:533-542, from the sidebar
loadSession(i) ==
    /\ i \in 1..Len(savedSessions)
    /\ FreeSlots(prefetches) # {}
    /\ Commit(stopAllPlayback(World))
    /\ studyData' = savedSessions[i].data
    /\ notes' = savedSessions[i].notes
    /\ chatLog' = savedSessions[i].chatLog
    /\ activeSessionId' = savedSessions[i].id
    /\ state' = "SUCCESS"
    /\ isPremiumUnavailable' = FALSE
    /\ isPremiumLocked' = AfterRender(FALSE, prefetchedBuffer, FALSE, TRUE)
    /\ prefetches' = StartPrefetch(prefetches, savedSessions[i].data, Cur)
    /\ chat' = [chat EXCEPT !.own = FALSE]
    /\ UNCHANGED <<selectedFile, error, savedSessions, prefetchedBuffer, gens, timers,
                   nextId, envVars, chatInput, isChatLoading, sideVars, storeVars,
                   wordVars, quizVars, retryVars, compactVars>>

\* App.tsx:544-557: what reset() writes
resetBody ==
    /\ Commit(stopAllPlayback(World))
    /\ state' = "IDLE"
    /\ notes' = ""
    /\ selectedFile' = FALSE
    /\ studyData' = 0
    /\ error' = FALSE
    /\ chatLog' = <<>>
    /\ activeSessionId' = 0
    /\ prefetchedBuffer' = 0
    /\ isPremiumUnavailable' = FALSE
    /\ isPremiumLocked' = AfterRender(prefetchedBuffer # 0, 0, FALSE, TRUE)
    /\ chat' = [chat EXCEPT !.own = FALSE]

\* App.tsx:544-557, NEW SESSION in the sidebar and under the guide
reset ==
    /\ resetBody
    /\ UNCHANGED <<savedSessions, flightVars, envVars, chatInput, isChatLoading,
                   sideVars, storeVars, wordVars, quizVars, retryVars, compactVars>>

\* ---- the sidebar's session menu (App.tsx:166-194)

\* updateHistory (App.tsx:154-157)
updateHistory(updated) ==
    /\ savedSessions' = updated
    /\ store' = updated

Pinned(list, id) == [j \in 1..Len(list) |->
                       IF list[j].id = id THEN [list[j] EXCEPT !.isPinned = ~@]
                       ELSE list[j]]

Renamed(list, id, title) == [j \in 1..Len(list) |->
                               IF list[j].id = id THEN [list[j] EXCEPT !.title = title]
                               ELSE list[j]]

RECURSIVE Without(_, _)
\* list.filter(s => s.id !== id)
Without(list, id) ==
    IF list = <<>> THEN <<>>
    ELSE IF Head(list).id = id THEN Without(Tail(list), id)
         ELSE <<Head(list)>> \o Without(Tail(list), id)

WithChatLog(list, id, messages) == [j \in 1..Len(list) |->
                                      IF list[j].id = id
                                      THEN [list[j] EXCEPT !.chatLog = messages]
                                      ELSE list[j]]

\* Session titles: the one a guide comes with and one typed in a rename.
Titles == {"T", "R"}

\* App.tsx:166-171
togglePin(i) ==
    /\ i \in 1..Len(savedSessions)
    /\ updateHistory(Pinned(savedSessions, savedSessions[i].id))
    /\ expected' = Pinned(expected, savedSessions[i].id)
    /\ UNCHANGED <<state, notes, selectedFile, studyData, error, activeSessionId,
                   flagVars, engineVars, envVars, flightVars, chatVars, sideVars, noops, sent,
                   wordVars, quizVars, retryVars, compactVars>>

\* App.tsx:173-178
startRename(i) ==
    /\ i \in 1..Len(savedSessions)
    /\ renamingId' = savedSessions[i].id
    /\ renameValue' = savedSessions[i].title
    /\ renamingId' # renamingId \/ renameValue' # renameValue
    /\ UNCHANGED <<orchVars, flagVars, engineVars, envVars, flightVars, chatVars,
                   storeVars, wordVars, quizVars, retryVars, compactVars>>

\* App.tsx:589, typing in the rename field
SetRenameValue(title) ==
    /\ renamingId # 0
    /\ renameValue # title
    /\ renameValue' = title
    /\ UNCHANGED <<orchVars, flagVars, engineVars, envVars, flightVars, chatVars,
                   renamingId, storeVars, wordVars, quizVars, retryVars, compactVars>>

\* App.tsx:180-186, on submit or blur of the rename field
handleRenameSubmit ==
    /\ renamingId # 0
    /\ updateHistory(Renamed(savedSessions, renamingId, renameValue))
    /\ expected' = Renamed(expected, renamingId, renameValue)
    /\ renamingId' = 0
    /\ UNCHANGED <<state, notes, selectedFile, studyData, error, activeSessionId,
                   flagVars, engineVars, envVars, flightVars, chatVars, renameValue,
                   noops, sent, wordVars, quizVars, retryVars, compactVars>>

\* A deleteSession that leaves the displayed session alone.
deleteSessionNoReset(i) ==
    /\ i \in 1..Len(savedSessions)
    /\ updateHistory(Without(savedSessions, savedSessions[i].id))
    /\ expected' = Without(expected, savedSessions[i].id)
    /\ UNCHANGED <<state, notes, selectedFile, studyData, error, activeSessionId,
                   flagVars, engineVars, chatLog, chat>>
    /\ UNCHANGED <<envVars, flightVars, chatInput, isChatLoading, sideVars, noops, sent,
                   wordVars, quizVars, retryVars, compactVars>>

\* App.tsx:188-194
deleteSession(i) ==
    /\ i \in 1..Len(savedSessions)
    /\ updateHistory(Without(savedSessions, savedSessions[i].id))
    /\ expected' = Without(expected, savedSessions[i].id)
    /\ IF activeSessionId = savedSessions[i].id
       THEN resetBody
       ELSE UNCHANGED <<state, notes, selectedFile, studyData, error, activeSessionId,
                        flagVars, engineVars, chatLog, chat>>
    /\ UNCHANGED <<envVars, flightVars, chatInput, isChatLoading, sideVars, noops, sent,
                   wordVars, quizVars, retryVars, compactVars>>

\* ---- the chat (rendered with the guide, App.tsx:803-843)

\* The texts a user types into the chat input, as characters.
ChatInputs == {<<>>, <<" ">>, <<"q">>}

\* A trim that removes nothing.
trimChatNothing(text) == text

\* chatInput.trim()
trimChat(text) == IF text = <<" ">> THEN <<>> ELSE text

\* chunk.text of one chunk of the stream: absent or empty, or a text
Deltas == {<<>>, <<"a">>, <<"b">>}

Apology == <<"Sorry, I had trouble finding an answer.">>

\* App.tsx:836
SetChatInput(text) ==
    /\ state = "SUCCESS" /\ studyData # 0
    /\ ~isChatLoading
    /\ chatInput # text
    /\ chatInput' = text
    /\ UNCHANGED <<orchVars, flagVars, engineVars, envVars, flightVars, chatLog,
                   isChatLoading, chat, sideVars, storeVars, wordVars, quizVars, retryVars,
                   compactVars>>

\* updateChatLogPersistence (App.tsx:159-163) of a render that saw the
\* active session id sid and the session list sessions
updateChatLogPersistence(sid, sessions, messages) ==
    IF sid = 0
    THEN UNCHANGED <<savedSessions, store, expected>>
    ELSE /\ updateHistory(WithChatLog(sessions, sid, messages))
         /\ expected' = WithChatLog(expected, sid, messages)

\* App.tsx:381-383: handleSendChatMessage returns at its guard
BlankSend ==
    /\ state = "SUCCESS" /\ studyData # 0
    /\ trimChat(chatInput) = <<>> \/ isChatLoading
    /\ noops < MaxNoop
    /\ noops' = noops + 1
    /\ UNCHANGED <<orchVars, flagVars, engineVars, envVars, flightVars, chatVars,
                   sideVars, store, expected, sent, wordVars, quizVars, retryVars, compactVars>>

\* App.tsx:381-393: handleSendChatMessage as far as its first await
handleSendChatMessage ==
    /\ state = "SUCCESS" /\ studyData # 0
    /\ ~(trimChat(chatInput) = <<>> \/ isChatLoading)
    /\ Len(chatLog) + 2 <= MaxTurns
    /\ sent < MaxExchanges
    /\ sent' = sent + 1
    /\ LET userMsg == trimChat(chatInput)
           newChatLog == Append(chatLog, [role |-> "user", content |-> userMsg])
       IN /\ chatInput' = <<>>
          /\ chatLog' = newChatLog
          /\ updateChatLogPersistence(activeSessionId, savedSessions, newChatLog)
          /\ isChatLoading' = TRUE
          /\ chat' = [st |-> "requesting", userMsg |-> userMsg, newChatLog |-> newChatLog,
                      fullAnswer |-> <<>>, deltas |-> <<>>, sessions |-> savedSessions,
                      sid |-> activeSessionId, own |-> FALSE]
    /\ UNCHANGED <<state, notes, selectedFile, studyData, error, activeSessionId,
                   flagVars, engineVars, envVars, flightVars, sideVars, noops, wordVars, quizVars,
                   retryVars, compactVars>>

\* App.tsx:393-397: askQuestionAboutDocumentStream resolved with a stream
ChatStreamOpened ==
    /\ chat.st = "requesting"
    /\ chatLog' = Append(chat.newChatLog, [role |-> "model", content |-> <<>>])
    /\ chat' = [chat EXCEPT !.st = "streaming", !.own = TRUE]
    /\ UNCHANGED <<orchVars, flagVars, engineVars, envVars, flightVars, chatInput,
                   isChatLoading, sideVars, storeVars, wordVars, quizVars, retryVars, compactVars>>

\* A chunk handler that shows the latest delta alone.
fullAnswerLast(fullAnswer, text) == text

\* fullAnswer += text
fullAnswerPlus(fullAnswer, text) == fullAnswer \o text

\* next[next.length - 1] = turn on a copy of prev: on an empty array the
\* assignment adds no element.
SetLast(prev, turn) == IF prev = <<>> THEN prev ELSE [prev EXCEPT ![Len(prev)] = turn]

\* App.tsx:399-409: one chunk of the stream
ChatChunk(text) ==
    /\ chat.st = "streaming"
    /\ Len(chat.deltas) < MaxChunks
    /\ LET fullAnswer == IF text # <<>> THEN fullAnswerPlus(chat.fullAnswer, text)
                         ELSE chat.fullAnswer
       IN /\ chat' = [chat EXCEPT !.fullAnswer = fullAnswer, !.deltas = Append(@, text)]
          /\ chatLog' = IF text # <<>>
                        THEN SetLast(chatLog, [role |-> "model", content |-> fullAnswer])
                        ELSE chatLog
    /\ UNCHANGED <<orchVars, flagVars, engineVars, envVars, flightVars, chatInput,
                   isChatLoading, sideVars, storeVars, wordVars, quizVars, retryVars, compactVars>>

\* App.tsx:411-415 and 421: the stream ended
ChatStreamEnd ==
    /\ chat.st = "streaming"
    /\ updateChatLogPersistence(chat.sid, chat.sessions, chatLog)
    /\ isChatLoading' = FALSE
    /\ chat' = IdleChat
    /\ UNCHANGED <<state, notes, selectedFile, studyData, error, activeSessionId,
                   flagVars, engineVars, envVars, flightVars, chatLog, chatInput,
                   sideVars, noops, sent, wordVars, quizVars, retryVars, compactVars>>

\* A catch that appends the apology to the log of the moment, as
\* setChatLog(prev => [...prev, apology]) would.
errorLogOnPrev(newChatLog, prev) == Append(prev, [role |-> "model", content |-> Apology])

\* errorLog of the catch (App.tsx:417): built on the newChatLog the handler
\* made before its request, not on the chat log of the moment (prev).
errorLog(newChatLog, prev) == Append(newChatLog, [role |-> "model", content |-> Apology])

\* App.tsx:416-421: the request or the stream failed
ChatFailure ==
    /\ chat.st \in {"requesting", "streaming"}
    /\ chatLog' = errorLog(chat.newChatLog, chatLog)
    /\ updateChatLogPersistence(chat.sid, chat.sessions, chatLog')
    /\ isChatLoading' = FALSE
    /\ chat' = IdleChat
    /\ UNCHANGED <<state, notes, selectedFile, studyData, error, activeSessionId,
                   flagVars, engineVars, envVars, flightVars, chatInput, sideVars,
                   noops, sent, wordVars, quizVars, retryVars, compactVars>>

\* ---- prefetchAudio settles

\* A prefetch that plays its audio as soon as it has it, as the request of
\* togglePremiumVoice does (App.tsx:317-318).
PrefetchSuccessPlays(p) ==
    /\ prefetches[p].st = "inflight"
    /\ NodeAvailable(World)
    /\ prefetchedBuffer' = prefetches[p].text
    /\ isPremiumLocked' = AfterRender(TRUE, prefetches[p].text, isPremiumUnavailable,
                                      isPremiumLocked)
    /\ Commit(playFromBuffer(World, prefetches[p].cap, prefetches[p].text, 0))
    /\ prefetches' = [prefetches EXCEPT ![p] = IdlePrefetch]
    /\ UNCHANGED <<orchVars, isPremiumUnavailable, envVars, gens, timers, nextId,
                   restVars>>

\* App.tsx:222-225
PrefetchSuccess(p) ==
    /\ prefetches[p].st = "inflight"
    /\ prefetchedBuffer' = prefetches[p].text
    /\ isPremiumLocked' = AfterRender(TRUE, prefetches[p].text, isPremiumUnavailable,
                                      isPremiumLocked)
    /\ prefetches' = [prefetches EXCEPT ![p] = IdlePrefetch]
    /\ UNCHANGED <<orchVars, isPremiumUnavailable, engineVars, envVars, gens, timers,
                   nextId, restVars>>

\* App.tsx:226-235, the error names 429 or quota: the fallback timer is set
PrefetchQuota(p) ==
    /\ prefetches[p].st = "inflight"
    /\ FreeSlots(timers) # {}
    /\ isPremiumUnavailable' = TRUE
    /\ isPremiumLocked' = AfterRender(FALSE, prefetchedBuffer, TRUE, FALSE)
    /\ timers' = [timers EXCEPT ![FirstFree(timers)] =
                      [st |-> "set", cap |-> prefetches[p].cap]]
    /\ prefetches' = [prefetches EXCEPT ![p] = IdlePrefetch]
    /\ UNCHANGED <<orchVars, prefetchedBuffer, engineVars, envVars, gens, nextId,
                   restVars>>

\* App.tsx:226-229, any other error
PrefetchFailure(p) ==
    /\ prefetches[p].st = "inflight"
    /\ prefetches' = [prefetches EXCEPT ![p] = IdlePrefetch]
    /\ UNCHANGED <<orchVars, flagVars, engineVars, envVars, gens, timers, nextId,
                   restVars>>

\* App.tsx:234: setTimeout(() => toggleActiveReader(), 500) fires; the
\* toggleActiveReader is the one of the render that called prefetchAudio
FallbackTimer(t) ==
    /\ timers[t].st = "set"
    /\ Commit(toggleActiveReader(World, timers[t].cap))
    /\ timers' = [timers EXCEPT ![t] = IdleTimer]
    /\ UNCHANGED <<orchVars, flagVars, envVars, gens, prefetches, nextId, restVars>>

\* ---- the playback buttons (rendered with the guide, App.tsx:759-795)

GuideShown == state = "SUCCESS" /\ studyData # 0

\* App.tsx:772-773
ClickPremium ==
    /\ GuideShown
    /\ ~(isPremiumLocked \/ isPremiumUnavailable)
    /\ ~ColdStart(Cur)
    /\ PlaysBuffer(Cur) => NodeAvailable(IF activeMode = "active"
                                         THEN stopAllPlayback(World) ELSE World)
    /\ Commit(togglePremiumVoice(World, Cur))
    /\ UNCHANGED <<orchVars, flagVars, envVars, flightVars, restVars>>

\* App.tsx:786
ClickActiveReader ==
    /\ GuideShown
    /\ Commit(toggleActiveReader(World, Cur))
    /\ UNCHANGED <<orchVars, flagVars, envVars, flightVars, restVars>>

\* App.tsx:781-784 and 789-792
ClickStop ==
    /\ GuideShown
    /\ activeMode # "none"
    /\ Commit(stopAllPlayback(World))
    /\ UNCHANGED <<orchVars, flagVars, envVars, flightVars, restVars>>

\* ---- the collaborators' events

\* speechSynthesis.onvoiceschanged (App.tsx:120); the list of a device only
\* gains voices, so the event is taken with a qualifying voice in the list
VoicesChanged(voicesOk) ==
    /\ hasPremiumLocal' = voicesOk
    /\ isPremiumLocked' = checkVoices(voicesOk, prefetchedBuffer, isPremiumUnavailable,
                                      isPremiumLocked)
    /\ UNCHANGED <<orchVars, prefetchedBuffer, isPremiumUnavailable, engineVars,
                   deviceVoices, flightVars, restVars>>

\* The browser has loaded the device's voice list and fires voiceschanged.
VoicesLoaded == VoicesChanged(deviceVoices)

\* The audio clock (ctx.currentTime) advances one tick; a node that has played
\* its buffer out ends first.  The clock is read only as the difference from
\* startTimeRef while sourceRef is set, and by the nodes that play: its ticks
\* while neither exists change nothing that is ever read, and are left out.
Tick ==
    /\ sourceRef # 0 \/ \E n \in 1..MaxNodes : nodes[n].playing
    /\ \A n \in 1..MaxNodes : nodes[n].playing => nodes[n].left > 0
    /\ sourceRef # 0 => playedOffsetRef + elapsed < MaxTime
    /\ elapsed' = IF sourceRef # 0 THEN elapsed + 1 ELSE elapsed
    /\ nodes' = [n \in 1..MaxNodes |->
                    IF nodes[n].playing
                    THEN [nodes[n] EXCEPT !.age = @ + 1, !.left = @ - 1]
                    ELSE IF n = sourceRef THEN [nodes[n] EXCEPT !.age = @ + 1]
                    ELSE nodes[n]]
    /\ UNCHANGED <<orchVars, flagVars, activeMode, playbackState, currentWordIndex,
                   sourceRef, playedOffsetRef, synth, playedSum, envVars, flightVars,
                   restVars>>

\* source.onended (App.tsx:338-344) of a node that played its buffer out
AudioEnded(n) ==
    /\ nodes[n].playing
    /\ nodes[n].left = 0
    /\ nodes' = [nodes EXCEPT ![n] = IF n = sourceRef
                                     THEN [@ EXCEPT !.playing = FALSE, !.onended = FALSE]
                                     ELSE FreeNode]
    /\ IF nodes[n].onended /\ nodes[n].capLive
       THEN /\ playedOffsetRef' = 0
            /\ playbackState' = "idle"
            /\ activeMode' = "none"
       ELSE UNCHANGED <<playedOffsetRef, playbackState, activeMode>>
    /\ UNCHANGED <<orchVars, flagVars, currentWordIndex, sourceRef, elapsed, synth,
                   playedSum, envVars, flightVars, restVars>>

\* utterance.onstart (App.tsx:373)
SpeechStart ==
    /\ synth.utt = "pending"
    /\ ~synth.paused
    /\ synth' = [synth EXCEPT !.utt = "speaking"]
    /\ playbackState' = "playing"
    /\ UNCHANGED <<orchVars, flagVars, activeMode, currentWordIndex, sourceRef,
                   elapsed, playedOffsetRef, nodes, playedSum, envVars, flightVars,
                   restVars>>

\* utterance.onboundary (App.tsx:367-372), a word event at charIndex
SpeechBoundary(charIndex) ==
    /\ synth.utt = "speaking"
    /\ ~synth.paused
    /\ charIndex \in 0..(Len(Summary(synth.text)) - 1)
    /\ LET matchIdx == findIndex(wordSegments(synth.text), charIndex) IN
         /\ currentWordIndex' = IF matchIdx # 0 - 1 THEN matchIdx ELSE currentWordIndex
         /\ currentWordIndex' # currentWordIndex
    /\ UNCHANGED <<orchVars, flagVars, activeMode, playbackState, sourceRef, elapsed,
                   playedOffsetRef, nodes, synth, playedSum, envVars, flightVars,
                   restVars>>

\* utterance.onend (App.tsx:374-376): the utterance was spoken to its end
SpeechEnd ==
    /\ synth.utt = "speaking"
    /\ ~synth.paused
    /\ synth' = NoUtterance(synth.paused)
    /\ IF synth.capActive
       THEN /\ playbackState' = "idle"
            /\ activeMode' = "none"
            /\ currentWordIndex' = NoWord
       ELSE UNCHANGED <<playbackState, activeMode, currentWordIndex>>
    /\ UNCHANGED <<orchVars, flagVars, sourceRef, elapsed, playedOffsetRef, nodes,
                   playedSum, envVars, flightVars, restVars>>

\* The error codes of a SpeechSynthesisErrorEvent that tell of a failure of
\* the speech engine.  The codes of the cancellation class (interrupted,
\* canceled) go to an utterance that cancel() has already removed.
SpeechErrors == {"synthesis-failed", "audio-busy"}

\* The speech engine fails on the utterance and fires its error event, and
\* no end event after it.  toggleActiveReader registers onboundary, onstart
\* and onend only (App.tsx:367-376): no handler runs.
SpeechError(err) ==
    /\ synth.utt \in {"pending", "speaking"}
    /\ synth' = NoUtterance(synth.paused)
    /\ UNCHANGED <<orchVars, flagVars, activeMode, playbackState, currentWordIndex,
                   sourceRef, elapsed, playedOffsetRef, nodes, playedSum, envVars,
                   flightVars, restVars>>

\* In Spec the user types notes and picks no file.
Next ==
    \/ \E i \in 1..MaxSessions : loadSession(i)
    \/ reset
    \/ \E p \in 1..MaxPrefetch : PrefetchSuccess(p)
    \/ \E p \in 1..MaxPrefetch : PrefetchQuota(p)
    \/ \E p \in 1..MaxPrefetch : PrefetchFailure(p)
    \/ \E t \in 1..MaxTimer : FallbackTimer(t)
    \/ ClickPremium
    \/ ClickActiveReader
    \/ ClickStop
    \/ VoicesChanged(TRUE)
    \/ Tick
    \/ \E n \in 1..MaxNodes : AudioEnded(n)
    \/ SpeechStart
    \/ \E charIndex \in 0..3 : SpeechBoundary(charIndex)
    \/ SpeechEnd
    \/ \E err \in SpeechErrors : SpeechError(err)

\* The orchestrator: the form, the generation and the sidebar.  The audio
\* prefetch of each guide fails for a reason other than quota.
OrchNext ==
    \/ \E text \in Notes : SetNotes(text)
    \/ \E isPdf \in BOOLEAN : handleFileChange(isPdf)
    \/ ClearFile
    \/ BlankSubmit
    \/ handleSubmit
    \/ \E k \in 1..MaxGen, data \in Guides : GenSuccess(k, data)
    \/ \E k \in 1..MaxGen : GenFailure(k)
    \/ \E i \in 1..MaxSessions : loadSession(i)
    \/ reset
    \/ \E p \in 1..MaxPrefetch : PrefetchFailure(p)
    \/ \E i \in 1..MaxSessions : deleteSession(i)

\* The session list: one generation from typed notes, with the sidebar (open
\* a session, its menu) in reach throughout, and Active Reader on the guide
\* displayed.
SessionsNext ==
    \/ SetNotes("n")
    \/ handleSubmit
    \/ \E k \in 1..MaxGen, data \in Guides : GenSuccess(k, data)
    \/ \E k \in 1..MaxGen : GenFailure(k)
    \/ \E p \in 1..MaxPrefetch : PrefetchFailure(p)
    \/ \E i \in 1..MaxSessions : togglePin(i)
    \/ \E i \in 1..MaxSessions : startRename(i)
    \/ \E title \in Titles : SetRenameValue(title)
    \/ handleRenameSubmit
    \/ \E i \in 1..MaxSessions : deleteSession(i)
    \/ \E i \in 1..MaxSessions : loadSession(i)
    \/ ClickActiveReader
    \/ SpeechStart

\* The chat: a session is opened from the sidebar, questions are sent and
\* their streams arrive, while the sidebar (open, NEW SESSION, delete) stays
\* in reach.  The audio
\* prefetch of each loaded session fails for a reason other than quota, which
\* leaves the playback flags as loadSession set them.
ChatNext ==
    \/ \E i \in 1..MaxSessions : loadSession(i)
    \/ reset
    \/ \E p \in 1..MaxPrefetch : PrefetchFailure(p)
    \/ \E text \in ChatInputs : SetChatInput(text)
    \/ BlankSend
    \/ handleSendChatMessage
    \/ ChatStreamOpened
    \/ \E text \in Deltas : ChatChunk(text)
    \/ ChatStreamEnd
    \/ ChatFailure
    \/ \E i \in 1..MaxSessions : deleteSession(i)

(***************************************************************************)
(* Backoff executor                                                        *)
(***************************************************************************)

\* maxRetries = 3 (default parameter) and let delay = 1000
maxRetries == 3
InitialDelay == 1000

Callers == {"processLectureNotes", "generateSpeech", "askQuestionAboutDocumentStream"}

\* An error as the executor sees it: error.status === 429, and whether
\* error.message contains the substring '429'.
Errors == [kind : {"api", "synthesis_failed", "audio_failed", "parse", "max_retries"},
           status429 : BOOLEAN, msg429 : BOOLEAN]

ApiErrors == {e \in Errors : e.kind = "api"}

RateLimit == [kind |-> "api", status429 |-> TRUE, msg429 |-> TRUE]

\* What JSON.parse can yield for a response of the generation request, as far
\* as the guide's constraints go: whether the six required fields are all
\* there, the lengths of the vocabulary and quiz arrays, and whether every
\* correctAnswerIndex is an index of its options.
Payloads == [complete : BOOLEAN, vocabulary : {9, 10}, quiz : {10, 11},
             indexInRange : BOOLEAN]

\* geminiService.ts:130-134: { ...rawData, languageCode, audioInstruction }:
\* the payload's fields, and the two aliases, which are defined when the
\* fields they copy are there
AsStudyData(rawData) ==
    [f \in DOMAIN rawData \cup {"aliases"} |->
        IF f = "aliases" THEN rawData.complete ELSE rawData[f]]

\* What the service can answer to one request of each caller.
\*  "ok"        a usable answer (JSON text that parses, audio data, a stream)
\*  "empty"     response.text / inlineData absent
\*  "malformed" text that JSON.parse rejects; m429 tells whether the engine's
\*              SyntaxError message (which quotes the text or the position)
\*              contains '429'
\*  "error"     the request rejects with an API error
\*  "json"      (processLectureNotes) text that parses to the given payload
Answers(caller) ==
    {[t |-> "ok"]}
    \cup (IF caller = "processLectureNotes"
          THEN {[t |-> "json", rawData |-> raw] : raw \in Payloads} ELSE {})
    \cup {[t |-> "error", err |-> e] : e \in ApiErrors}
    \cup (IF caller \in {"processLectureNotes", "generateSpeech"}
          THEN {[t |-> "empty"]} ELSE {})
    \cup (IF caller = "processLectureNotes"
          THEN {[t |-> "malformed", m429 |-> b] : b \in BOOLEAN} ELSE {})

\* The operation fn handed to retryWithBackoff: the outcome of one invocation
\* given the service's answer.
Fn(caller, ans) ==
    CASE ans.t = "error" -> [ok |-> FALSE, err |-> ans.err]
      [] ans.t = "empty" ->
            [ok |-> FALSE,
             err |-> [kind |-> IF caller = "processLectureNotes"
                               THEN "synthesis_failed" ELSE "audio_failed",
                      status429 |-> FALSE, msg429 |-> FALSE]]
      [] ans.t = "malformed" ->
            [ok |-> FALSE,
             err |-> [kind |-> "parse", status429 |-> FALSE, msg429 |-> ans.m429]]
      [] ans.t = "json" -> [ok |-> TRUE, guide |-> AsStudyData(ans.rawData)]
      [] OTHER -> [ok |-> TRUE]

\* A classification that takes every failure for a quota failure.
isQuotaErrorAny(err) == TRUE

isQuotaError(err) == err.msg429 \/ err.status429

\* A backoff that never grows.
NextDelaySame(delay) == delay

NextDelay(delay) == delay * 2

\* No call of askQuestionAboutDocumentStream is observed.
CompactIdle ==
    /\ cHistory = <<>>
    /\ cPc = "built"
    /\ cSummarized = <<>>
    /\ cProcessed = <<>>
    /\ cDigest = <<>>
    /\ cContext = <<>>
    /\ cQuestion = ""
    /\ cContents = <<>>

RetryInit ==
    /\ rCaller \in Callers
    /\ rPc = "call"
    /\ rI = 0
    /\ rDelay = InitialDelay
    /\ rCalls = 0
    /\ rWaits = <<>>
    /\ rHist = <<>>
    /\ rResult = [ok |-> TRUE]
    /\ AppIdle
    /\ CompactIdle

\* try { return await fn(); } catch (error) { ... }
RetryInvoke(ans) ==
    /\ rPc = "call"
    /\ rCalls' = rCalls + 1
    /\ rHist' = Append(rHist, ans)
    /\ LET out == Fn(rCaller, ans) IN
         IF out.ok
         THEN /\ rPc' = "returned"
              /\ rResult' = out
         ELSE IF isQuotaError(out.err) /\ rI < maxRetries
              THEN /\ rPc' = "wait"
                   /\ rResult' = rResult
              ELSE /\ rPc' = "thrown"
                   /\ rResult' = out
    /\ UNCHANGED <<rCaller, rI, rDelay, rWaits, appVars, compactVars>>

\* await new Promise(resolve => setTimeout(resolve, delay)); delay *= 2; continue;
\* then the loop's i++ and its test i <= maxRetries
RetryWaitDone ==
    /\ rPc = "wait"
    /\ rWaits' = Append(rWaits, rDelay)
    /\ rDelay' = NextDelay(rDelay)
    /\ rI' = rI + 1
    /\ IF rI + 1 <= maxRetries
       THEN /\ rPc' = "call"
            /\ rResult' = rResult
       ELSE /\ rPc' = "thrown"
            /\ rResult' = [ok |-> FALSE,
                           err |-> [kind |-> "max_retries",
                                    status429 |-> FALSE, msg429 |-> FALSE]]
    /\ UNCHANGED <<rCaller, rCalls, rHist, appVars, compactVars>>

RetryNext ==
    \/ \E ans \in Answers(rCaller) : RetryInvoke(ans)
    \/ RetryWaitDone

SpecRetry == RetryInit /\ [][RetryNext]_vars

RetryIdle ==
    /\ rCaller = "generateSpeech"
    /\ rPc = "returned"
    /\ rI = 0
    /\ rDelay = InitialDelay
    /\ rCalls = 0
    /\ rWaits = <<>>
    /\ rHist = <<>>
    /\ rResult = [ok |-> TRUE]

Init == AppInit /\ RetryIdle /\ CompactIdle

SpecChat == Init /\ [][ChatNext]_vars

\* One session is found in localStorage when the component mounts.
OrchInit ==
    AppStart(SubSeq(StoredSessions, 2, 2), FALSE) /\ WordsIdle /\ QuizIdle /\ RetryIdle
    /\ CompactIdle

(***************************************************************************)
(* One utterance's boundary events (App.tsx:200-213 and 367-372)           *)
(***************************************************************************)

\* The summary text of the spec's example.
Example == <<"H", "e", "l", "l", "o", " ", "w", "o", "r", "l", "d", " ",
            "t", "o", "d", "a", "y">>

\* Summary texts: every text of up to MaxText characters over two letters
\* and the blank, and the example.
Texts == UNION {[1..n -> {"a", "b", " "}] : n \in 1..MaxText} \cup {Example}

WordsInit ==
    /\ AppStart(<<>>, FALSE)
    /\ QuizIdle
    /\ wText \in Texts
    /\ wChar = NoWord
    /\ RetryIdle
    /\ CompactIdle

\* utterance.onboundary (App.tsx:367-372) for a word event at charIndex, the
\* utterance and wordSegments being those of the summary wText
onboundary(charIndex) ==
    /\ charIndex \in 0..Len(wText)
    /\ LET matchIdx == findIndex(wordSegmentsOf(wText), charIndex) IN
         currentWordIndex' = IF matchIdx # 0 - 1 THEN matchIdx ELSE currentWordIndex
    /\ wChar' = charIndex
    /\ UNCHANGED <<orchVars, flagVars, activeMode, playbackState, sourceRef, elapsed,
                   playedOffsetRef, nodes, synth, playedSum, envVars, flightVars,
                   chatVars, sideVars, storeVars, wText, quizVars, retryVars, compactVars>>

WordsNext == \E charIndex \in 0..Len(Example) : onboundary(charIndex)

SpecWords == WordsInit /\ [][WordsNext]_vars

SpecOrch == OrchInit /\ [][OrchNext]_vars

SpecSessions == OrchInit /\ [][SessionsNext]_vars

\* The quota fallback: a guide is generated from typed notes or opened from
\* the sidebar, its audio prefetch fails on quota, and the fallback timer
\* fires.
FallbackNext ==
    \/ SetNotes("n")
    \/ handleSubmit
    \/ \E k \in 1..MaxGen, data \in Guides : GenSuccess(k, data)
    \/ \E k \in 1..MaxGen : GenFailure(k)
    \/ \E i \in 1..MaxSessions : loadSession(i)
    \/ reset
    \/ \E p \in 1..MaxPrefetch : PrefetchQuota(p)
    \/ \E t \in 1..MaxTimer : FallbackTimer(t)
    \/ SpeechStart

SpecFallback == OrchInit /\ [][FallbackNext]_vars

\* Premium on any device: a stored session, one generation, and every audio
\* prefetch succeeding.  The device's voice list may or may not hold a
\* qualifying voice.  A pending promise settles and the browser delivers the
\* voice list; the user's clicks are under no obligation.
DeviceInit ==
    /\ \E device \in BOOLEAN : AppStartOn(SubSeq(StoredSessions, 2, 2), FALSE, device)
    /\ WordsIdle /\ QuizIdle /\ RetryIdle /\ CompactIdle

PrefetchSucceeds == \E p \in 1..MaxPrefetch : PrefetchSuccess(p)

GenSucceeds == \E k \in 1..MaxGen, data \in Guides : GenSuccess(k, data)

DeviceNext ==
    \/ SetNotes("n")
    \/ handleSubmit
    \/ GenSucceeds
    \/ \E i \in 1..MaxSessions : loadSession(i)
    \/ reset
    \/ PrefetchSucceeds
    \/ VoicesLoaded
    \/ ClickPremium
    \/ ClickStop

SpecDevice ==
    /\ DeviceInit
    /\ [][DeviceNext]_vars
    /\ WF_vars(GenSucceeds)
    /\ WF_vars(PrefetchSucceeds)
    /\ WF_vars(VoicesLoaded)

(***************************************************************************)
(* History compaction (geminiService.ts:146-155, 35-49 and 169-173)        *)
(***************************************************************************)

\* history.length > 10 and the two slices around history.length - 10
Threshold == 10

Roles == {"user", "model"}

\* The other role: the turns of a chat log alternate.
Other(role) == IF role = "user" THEN "model" ELSE "user"

\* Histories of up to MaxHistory turns [role, content], the roles alternating
\* from either role and every content drawn from two texts.
Histories ==
    {[j \in 1..Len(texts) |-> [role |-> IF j % 2 = 1 THEN first ELSE Other(first),
                               content |-> texts[j]]] :
        first \in Roles, texts \in UNION {[1..n -> {"p", "q"}] : n \in 0..MaxHistory}}

\* history.slice(from, to), 0-based and end-exclusive
slice(history, from, to) == SubSeq(history, from + 1, to)

\* m => `${m.role === 'user' ? 'Student' : 'Assistant'}: ${m.content}`
ConversationLine(m) ==
    [speaker |-> IF m.role = "user" THEN "Student" ELSE "Assistant", text |-> m.content]

\* history.map(...) of summarizeOldHistory, before .join
Conversation(history) == [j \in 1..Len(history) |-> ConversationLine(history[j])]

\* processedHistory.map(m => ({ role: m.role, parts: [{ text: m.content }] }))
Contents(history) ==
    [j \in 1..Len(history) |-> [role |-> history[j].role, parts |-> <<history[j].content>>]]

\* `\nPreviously discussed and established context:\n${summary}`
BackgroundContext(summary) == <<"Previously discussed and established context:">> \o summary

\* The texts of a question: those of the turns of a history.
Questions == {"p", "q"}

\* The final turn of contents (geminiService.ts:174-180): the question and,
\* when a file is selected, its inline data.
FinalTurn(question, file) ==
    [role |-> "user",
     parts |-> <<question>> \o (IF file THEN <<"inlineData">> ELSE <<>>)]

\* const contents = [...processedHistory.map(...), {role: 'user', parts: [...]}]
\* (geminiService.ts:169-181), processedHistory already mapped
contents(processedHistory, question, file) ==
    Append(processedHistory, FinalTurn(question, file))

\* const newChatLog = [...chatLog, { role: 'user', content: userMsg }]
\* (App.tsx:386), the history handleSendChatMessage hands to
\* askQuestionAboutDocumentStream together with userMsg (App.tsx:393)
newChatLog(log, userMsg) == Append(log, [role |-> "user", content |-> userMsg])

\* What the summarization request can come back with: response.text, absent
\* or a text, or a rejection.
SummaryAnswers == {[t |-> "text", text |-> <<"s">>], [t |-> "text", text |-> <<>>],
                   [t |-> "error"]}

CompactInit ==
    /\ cHistory \in Histories
    /\ cPc = "start"
    /\ cSummarized = <<>>
    /\ cProcessed = <<>>
    /\ cDigest = <<>>
    /\ cContext = <<>>
    /\ cQuestion \in Questions
    /\ cContents = <<>>
    /\ AppIdle
    /\ RetryIdle

\* geminiService.ts:146-152, as far as the await of summarizeOldHistory
\* (35-46); its `history.length === 0` return cannot be taken from here.
CompactStart ==
    /\ cPc = "start"
    /\ IF Len(cHistory) > Threshold
       THEN LET olderMessages == slice(cHistory, 0, Len(cHistory) - Threshold) IN
            /\ cSummarized' = Conversation(olderMessages)
            /\ cPc' = "summarizing"
            /\ UNCHANGED <<cProcessed, cDigest, cContext>>
       ELSE /\ cProcessed' = Contents(cHistory)
            /\ cPc' = "built"
            /\ UNCHANGED <<cSummarized, cDigest, cContext>>
    /\ UNCHANGED <<cHistory, cQuestion, cContents, retryVars, appVars>>

\* An await inside try/catch that takes a rejected summarization for an
\* empty summary.
awaitSummarySwallowed(ans) ==
    IF ans.t = "error" THEN [ok |-> TRUE, summary |-> <<>>]
    ELSE [ok |-> TRUE, summary |-> ans.text]

\* `await summarizeOldHistory(olderMessages)` (geminiService.ts:152), which
\* is not inside a try: a rejection of generateContent (line 44) rejects
\* summarizeOldHistory and then askQuestionAboutDocumentStream.
awaitSummary(ans) ==
    IF ans.t = "error" THEN [ok |-> FALSE, summary |-> <<>>]
    ELSE [ok |-> TRUE, summary |-> ans.text]

\* geminiService.ts:48 and 152-154: the summarization settles.  A rejection
\* leaves askQuestionAboutDocumentStream by its await.
SummarySettled(ans) ==
    /\ cPc = "summarizing"
    /\ LET settled == awaitSummary(ans) IN
       IF ~settled.ok
       THEN /\ cPc' = "failed"
            /\ UNCHANGED <<cProcessed, cDigest, cContext>>
       ELSE LET recentMessages == slice(cHistory, Len(cHistory) - Threshold, Len(cHistory))
            IN /\ cDigest' = settled.summary
               /\ cContext' = BackgroundContext(settled.summary)
               /\ cProcessed' = Contents(recentMessages)
               /\ cPc' = "built"
    /\ UNCHANGED <<cHistory, cSummarized, cQuestion, cContents, retryVars, appVars>>

\* geminiService.ts:169-192: the contents are complete and the streaming
\* request is issued with them.
StreamRequested ==
    /\ cPc = "built"
    /\ cContents' = contents(cProcessed, cQuestion, selectedFile)
    /\ cPc' = "requested"
    /\ UNCHANGED <<cHistory, cSummarized, cProcessed, cDigest, cContext, cQuestion,
                   retryVars, appVars>>

\* App.tsx:416-421: the catch of the handleSendChatMessage that called
\* askQuestionAboutDocumentStream with cHistory as its newChatLog.  No session
\* is active here, so updateChatLogPersistence returns at its guard.
CompactCaught ==
    /\ cPc = "failed"
    /\ cPc' = "caught"
    /\ chatLog' = errorLog(cHistory, chatLog)
    /\ updateChatLogPersistence(activeSessionId, savedSessions, chatLog')
    /\ isChatLoading' = FALSE
    /\ UNCHANGED <<cHistory, cSummarized, cProcessed, cDigest, cContext, cQuestion,
                   cContents, retryVars, state, notes, selectedFile, studyData, error, activeSessionId,
                   flagVars, engineVars, envVars, flightVars, chatInput, chat,
                   sideVars, noops, sent, wordVars, quizVars>>

CompactNext ==
    \/ CompactStart
    \/ \E ans \in SummaryAnswers : SummarySettled(ans)
    \/ StreamRequested
    \/ CompactCaught

SpecCompact == CompactInit /\ [][CompactNext]_vars

(***************************************************************************)
(* The Quiz component (components/Quiz.tsx)                                *)
(***************************************************************************)

\* The options of a question, each text named by a number: all different,
\* or the last one repeating the text of the first.
QuizOptions ==
    {[k \in 1..MaxOptions |-> k], [k \in 1..MaxOptions |-> IF k = MaxOptions THEN 1 ELSE k]}

\* The questions named text, with a correctAnswerIndex within the options or
\* one past them, which processLectureNotes does not rule out
\* (geminiService.ts:128-134).
QuizQuestions(text) ==
    [question : {text}, options : QuizOptions, correctAnswerIndex : 0..MaxOptions]

\* The quiz arrays handed to the component as its questions prop.
QuizLists ==
    {<<>>} \cup {<<q>> : q \in QuizQuestions("A")}
           \cup {<<q1, q2>> : q1 \in QuizQuestions("A"), q2 \in QuizQuestions("B")}

\* The values j = Math.floor(Math.random() * (i + 1)) of one shuffle of n
\* elements, for i = n - 1 down to 1: each lies in 0..i.
Picks(n) == {rnd \in [1..(n - 1) -> 0..(n - 1)] : \A i \in 1..(n - 1) : rnd[i] <= i}

RECURSIVE ShuffleFrom(_, _, _)
\* Quiz.tsx:15-18: the loop from i down to 1, swapping elements i and j
\* (0-based) of newArray
ShuffleFrom(newArray, rnd, i) ==
    IF i <= 0 THEN newArray
    ELSE LET j == rnd[i] IN
         ShuffleFrom([newArray EXCEPT ![i + 1] = newArray[j + 1],
                                      ![j + 1] = newArray[i + 1]], rnd, i - 1)

\* Quiz.tsx:13-20, on a copy of array
shuffleArray(array, rnd) == ShuffleFrom(array, rnd, Len(array) - 1)

\* A shuffle that leaves the answer key where it was.
oldCorrectIndex(shuffledOptions, q) == q.correctAnswerIndex

\* shuffledOptions.findIndex(o => o.isCorrect) (Quiz.tsx:45)
newCorrectIndex(shuffledOptions, q) ==
    LET hits == {k \in 1..Len(shuffledOptions) : shuffledOptions[k].isCorrect}
    IN IF hits = {} THEN 0 - 1
       ELSE (CHOOSE k \in hits : \A j \in hits : k <= j) - 1

\* Quiz.tsx:38-52: the callback of questionOrder.map
shuffleQuestion(q, rnd) ==
    LET optionsWithMetadata ==
            [idx \in 1..Len(q.options) |->
                [text |-> q.options[idx], isCorrect |-> (idx - 1 = q.correctAnswerIndex)]]
        shuffledOptions == shuffleArray(optionsWithMetadata, rnd)
    IN [question |-> q.question,
        options |-> [k \in 1..Len(shuffledOptions) |-> shuffledOptions[k].text],
        correctAnswerIndex |-> newCorrectIndex(shuffledOptions, q)]

QuizInit ==
    /\ AppStart(<<>>, FALSE)
    /\ WordsIdle
    /\ RetryIdle
    /\ CompactIdle
    /\ questions \in QuizLists
    /\ shuffledQuestions = <<>>
    /\ currentQuestionIndex = 0
    /\ selectedAnswers = NoAnswers
    /\ showResults = FALSE

\* Quiz.tsx:33-58, run by the effect of the mount (29-31) and by the retake
\* button of the results view (167)
handleShuffleAndReset ==
    /\ shuffledQuestions = <<>> \/ showResults
    /\ \E rq \in Picks(Len(questions)), ro \in [1..Len(questions) -> Picks(MaxOptions)] :
          LET questionOrder == shuffleArray(questions, rq) IN
          shuffledQuestions' = [k \in 1..Len(questionOrder) |->
                                   shuffleQuestion(questionOrder[k], ro[k])]
    /\ currentQuestionIndex' = 0
    /\ selectedAnswers' = NoAnswers
    /\ showResults' = FALSE
    /\ UNCHANGED <<questions, retryVars, compactVars, orchVars, flagVars, engineVars,
                   envVars, flightVars, chatVars, sideVars, storeVars, wordVars>>

\* Quiz.tsx:64-67, an option button of the question shown (190)
handleSelectOption(index) ==
    /\ shuffledQuestions # <<>>
    /\ ~showResults
    /\ index \in 0..(Len(shuffledQuestions[currentQuestionIndex + 1].options) - 1)
    /\ selectedAnswers' = [selectedAnswers EXCEPT ![currentQuestionIndex] = index]
    /\ UNCHANGED <<questions, shuffledQuestions, currentQuestionIndex, showResults,
                   retryVars, compactVars, orchVars, flagVars, engineVars, envVars,
                   flightVars, chatVars, sideVars, storeVars, wordVars>>

\* Quiz.tsx:69-75, the button enabled once the question shown has an answer
\* (214)
handleNext ==
    /\ shuffledQuestions # <<>>
    /\ ~showResults
    /\ selectedAnswers[currentQuestionIndex] # 0 - 1
    /\ IF currentQuestionIndex = Len(shuffledQuestions) - 1
       THEN showResults' = TRUE /\ UNCHANGED currentQuestionIndex
       ELSE currentQuestionIndex' = currentQuestionIndex + 1 /\ UNCHANGED showResults
    /\ UNCHANGED <<questions, shuffledQuestions, selectedAnswers, retryVars,
                   compactVars, orchVars, flagVars, engineVars, envVars, flightVars,
                   chatVars, sideVars, storeVars, wordVars>>

QuizNext ==
    \/ handleShuffleAndReset
    \/ \E index \in 0..(MaxOptions - 1) : handleSelectOption(index)
    \/ handleNext

SpecQuiz == QuizInit /\ [][QuizNext]_vars

Spec == Init /\ [][Next]_vars

(***************************************************************************)
(* Properties of the playback engine, over Spec                            *)
(***************************************************************************)

\* A premium source node is sounding.
PremiumSounding == \E n \in 1..MaxNodes : nodes[n].playing

\* The speech engine holds an utterance (queued, speaking or paused).
UtteranceActive == synth.utt # "none"

\* The step is an invocation of toggleActiveReader.
ReaderToggled == ClickActiveReader \/ \E t \in 1..MaxTimer : FallbackTimer(t)

\* C1: in every reachable state the premium source node and the speech
\* engine's utterance are never both active.
C1_MutualExclusion == ~(PremiumSounding /\ UtteranceActive)

\* C2: a synthesis request that is still in flight when playback is stopped or
\* the other mode is started starts no source node and leaves (activeMode,
\* playbackState) alone when it later succeeds.  The only synthesis requests
\* are those of prefetchAudio: togglePremiumVoice never gets as far as its own
\* request (App.tsx:312-328), because premium is enabled only with a buffer.
C2_StaleResultDiscarded ==
    /\ [](GuideShown => ~ColdStart(Cur))
    /\ [][\A p \in 1..MaxPrefetch :
             PrefetchSuccess(p)
             => UNCHANGED <<activeMode, playbackState, nodes, sourceRef, synth>>]_vars

\* reset stopped the playback while a prefetch was in flight, and the prefetch
\* has succeeded since.
C2_Witness ==
    /\ studyData = 0
    /\ prefetchedBuffer # 0
    /\ activeMode = "none"
    /\ playbackState = "idle"
    /\ ~PremiumSounding

\* C3: a toggleActiveReader that starts the reader while the engine is in
\* (premium, playing) leaves the premium source node stopped, the source
\* reference cleared and the played offset at 0, with the engine in active
\* mode; the utterance's start then makes it (active, playing).
C3_ReaderStopsPremium ==
    [][(/\ ReaderToggled
        /\ activeMode = "premium"
        /\ playbackState = "playing"
        /\ synth'.utt = "pending")
       => /\ activeMode' = "active"
          /\ ~PremiumSounding'
          /\ sourceRef' = 0
          /\ playedOffsetRef' = 0]_vars

\* C4: stopAllPlayback, from any reachable state, yields (none, idle), no
\* active source node, speech cancelled, played offset 0 and the highlight
\* cleared; a second stopAllPlayback changes nothing.
C4_StopAll ==
    LET w == stopAllPlayback(World) IN
      /\ w.activeMode = "none"
      /\ w.playbackState = "idle"
      /\ w.sourceRef = 0
      /\ \A n \in 1..MaxNodes : ~w.nodes[n].playing
      /\ w.synth.utt = "none"
      /\ w.playedOffsetRef = 0
      /\ w.currentWordIndex = NoWord
      /\ stopAllPlayback(w) = w

\* C5: every segment of a premium playback starts the cached buffer at the sum
\* of the elapsed times of the earlier segments of that playback (from each
\* segment's start to the pause that ended it), modulo the buffer's duration,
\* and a paused premium playback still has its cached buffer.
C5_ResumeOffset ==
    /\ sourceRef # 0
         => /\ nodes[sourceRef].buffer # 0
            /\ nodes[sourceRef].offset = playedSum % Duration(nodes[sourceRef].buffer)
    /\ (activeMode = "premium" /\ playbackState = "paused") => prefetchedBuffer # 0

\* A resume after 3 ticks of play in a buffer of 2: the segment starts at 1.
C5_Witness ==
    /\ activeMode = "premium"
    /\ playbackState = "playing"
    /\ sourceRef # 0
    /\ nodes[sourceRef].playing
    /\ playedSum > Duration(nodes[sourceRef].buffer)
    /\ nodes[sourceRef].offset = 1

(***************************************************************************)
(* Properties of retryWithBackoff, over SpecRetry                          *)
(***************************************************************************)

\* The service answered with a rate-limit error (HTTP status 429).
IsRateLimit(ans) == ans.t = "error" /\ ans.err.status429

\* The answer is a failure in which the provider signals quota: status 429 or
\* '429' in the provider's message.
QuotaSignalled(ans) == ans.t = "error" /\ (ans.err.status429 \/ ans.err.msg429)

\* The answer is a failure that is not rate-limit-class: an empty response, an
\* unparsable one, or a provider error that signals no quota.
NotRateLimitClass(ans) ==
    \/ ans.t \in {"empty", "malformed"}
    \/ ans.t = "error" /\ ~QuotaSignalled(ans)

\* C7: an operation that fails with a rate-limit error exactly twice and then
\* succeeds makes the call return the success value after exactly 3
\* invocations and exactly two waits, 1000 ms before the second invocation and
\* 2000 ms before the third.
C7_TwoFailuresThenSuccess ==
    (/\ Len(rHist) >= 2
     /\ IsRateLimit(rHist[1])
     /\ IsRateLimit(rHist[2]))
    => /\ Len(rHist) = 2 => rPc = "wait" \/ (rPc = "call" /\ rWaits = <<1000, 2000>>)
       /\ (Len(rHist) = 3 /\ rHist[3].t = "ok")
            => /\ rPc = "returned"
               /\ rResult = [ok |-> TRUE]
               /\ rCalls = 3
               /\ rWaits = <<1000, 2000>>

C7_Witness ==
    /\ rPc = "returned"
    /\ rCalls = 3
    /\ IsRateLimit(rHist[1])
    /\ IsRateLimit(rHist[2])
    /\ rWaits = <<1000, 2000>>

\* C8: an operation that always fails with a rate-limit error makes the call
\* raise the terminal "max retries exceeded" error after exactly 4
\* invocations.
C8_MaxRetriesExceeded ==
    (/\ rPc = "thrown"
     /\ \A i \in 1..Len(rHist) : IsRateLimit(rHist[i]))
    => /\ rCalls = 4
       /\ rResult.err.kind = "max_retries"

\* C9: a failure that is not rate-limit-class (an empty or unparsable response
\* included) propagates to the caller after that one invocation, with no wait
\* and no retry, on whichever attempt it occurs.
C9_OtherFailuresPropagate ==
    \A i \in 1..Len(rHist) :
        NotRateLimitClass(rHist[i])
        => /\ i = Len(rHist)
           /\ rPc = "thrown"
           /\ rResult = Fn(rCaller, rHist[i])
           /\ Len(rWaits) = i - 1

Forwarded(j) == [role |-> cHistory[j].role, parts |-> <<cHistory[j].content>>]

\* Turn j of the history as it is quoted in a summarization request.
Quoted(j) == [speaker |-> IF cHistory[j].role = "user" THEN "Student" ELSE "Assistant",
              text |-> cHistory[j].content]

\* The turns sent and forwarded are the ones C11 names: with n > 10 turns the
\* oldest n - 10 are quoted for summarization and the last 10 forwarded in
\* order; otherwise no summarization request is made and all are forwarded.
C11_Windows ==
    LET n == Len(cHistory) IN
    /\ cPc \in {"summarizing", "built", "failed"}
          => cSummarized = IF n > 10 THEN [j \in 1..(n - 10) |-> Quoted(j)] ELSE <<>>
    /\ cPc = "built"
          => cProcessed = IF n > 10 THEN [j \in 1..10 |-> Forwarded(n - 10 + j)]
                          ELSE [j \in 1..n |-> Forwarded(j)]

\* C11: for a history of n turns, if n > 10 exactly the oldest n - 10 turns
\* are sent for summarization and exactly the 10 most recent turns are
\* forwarded unchanged and in order together with a non-empty digest; if
\* n <= 10 no summarization request is made, the digest is empty and all n
\* turns are forwarded unchanged and in order.
C11_Compaction ==
    /\ C11_Windows
    /\ cPc = "built" => (cDigest # <<>>) = (Len(cHistory) > 10)

(***************************************************************************)
(* Properties of the chat, over SpecChat                                   *)
(***************************************************************************)

RECURSIVE Concat(_)
\* The concatenation of a sequence of texts, in order.
Concat(texts) == IF texts = <<>> THEN <<>> ELSE Head(texts) \o Concat(Tail(texts))

\* The model turn of the exchange in flight: the last turn of the chat log
\* the exchange appended it to.
ModelTurn == chatLog[Len(chatLog)]

IsPrefix(a, b) == Len(a) <= Len(b) /\ SubSeq(b, 1, Len(a)) = a

\* C12: during one exchange the model turn's content is, after each applied
\* chunk, the concatenation of all text deltas received so far in arrival
\* order; successive contents are prefix-growing, and the content the
\* exchange ends with is the concatenation of all its deltas.
C12_StreamingOrder ==
    /\ []((chat.st = "streaming" /\ chat.own)
            => /\ chatLog # <<>>
               /\ ModelTurn = [role |-> "model", content |-> Concat(chat.deltas)])
    /\ [][(chat.st = "streaming" /\ chat.own /\ chat'.st = "streaming" /\ chat'.own)
            => IsPrefix(ModelTurn.content, ModelTurn'.content)]_vars
    /\ [][(ChatStreamEnd /\ chat.own)
            => chatLog' = Append(chat.newChatLog,
                                 [role |-> "model", content |-> Concat(chat.deltas)])]_vars

\* Two non-empty deltas have been applied in their order of arrival.
C12_Witness ==
    /\ chat.st = "streaming"
    /\ chat.own
    /\ chat.deltas = <<(<<"a">>), (<<"b">>)>>
    /\ ModelTurn.content = <<"a", "b">>

\* The step is a call of handleSendChatMessage.
SendCalled == BlankSend \/ handleSendChatMessage

\* C20: at most one chat exchange is in flight: handleSendChatMessage is a
\* no-op (chat log, input and store unchanged, no request sent) when the
\* input is blank or isChatLoading is true, and isChatLoading is cleared after
\* every exchange, successful or failed, so that a later send is accepted.
C20_OneExchangeInFlight ==
    /\ [](isChatLoading = (chat.st # "free"))
    /\ [][(SendCalled /\ (chatInput \in {<<>>, <<" ">>} \/ isChatLoading))
            => UNCHANGED <<chatLog, chatInput, savedSessions, store, chat>>]_vars
    /\ [][(ChatStreamEnd \/ ChatFailure) => (chat'.st = "free" /\ ~isChatLoading')]_vars
    /\ [][(SendCalled /\ chatInput = <<"q">> /\ ~isChatLoading)
            => chat'.st = "requesting"]_vars

\* A send has been accepted after an earlier exchange ran to its end, and a
\* send made while it was in flight has been turned away.
C20_Witness ==
    /\ chat.st = "requesting"
    /\ isChatLoading
    /\ noops > 0
    /\ \E j \in 1..Len(savedSessions) :
          /\ Len(savedSessions[j].chatLog) = 4
          /\ savedSessions[j].id # chat.sid

(***************************************************************************)
(* Properties of the orchestrator, over SpecOrch                           *)
(***************************************************************************)

\* The step is the generation call of a handleSubmit settling.
GenSettles ==
    \/ \E k \in 1..MaxGen, data \in Guides : GenSuccess(k, data)
    \/ \E k \in 1..MaxGen : GenFailure(k)

\* C13: once handleSubmit has moved the orchestrator to LOADING, no other
\* operation changes the orchestrator state before processLectureNotes
\* resolves or rejects, and the settle moves LOADING to SUCCESS or ERROR only.
C13_LoadingLeftBySettle ==
    [][(state = "LOADING" /\ state' # "LOADING")
       => GenSettles /\ state' \in {"SUCCESS", "ERROR"}]_vars

\* The step is a call of handleSubmit.
SubmitCalled == BlankSubmit \/ handleSubmit

\* C14: handleSubmit with blank (empty or whitespace-only) notes and no
\* selected file is a no-op: the orchestrator state, error, guide, chat log,
\* playback state, cached buffer and session list are unchanged and no
\* request is sent to the service.
C14_BlankSubmitNoOp ==
    [][(SubmitCalled /\ notes \in {"", " "} /\ ~selectedFile)
       => UNCHANGED <<state, error, studyData, chatLog, engineVars, flagVars,
                      savedSessions, activeSessionId, store, gens, prefetches>>]_vars

\* handleSubmit was called on whitespace-only notes, and no request is out.
C14_Witness ==
    /\ noops > 0
    /\ notes = " "
    /\ ~selectedFile
    /\ state = "IDLE"
    /\ \A k \in 1..MaxGen : gens[k].st = "free"

\* The ids of the sessions of a list.
Ids(list) == {list[j].id : j \in 1..Len(list)}

\* C15: when the generation call succeeds, the orchestrator is in SUCCESS
\* holding the returned guide, an audio prefetch for that guide's summary has
\* been started, and exactly one new session record for that guide (empty
\* chat log, unpinned) has been added at the head of the session list, made
\* the active session and written to the store.
C15_SuccessfulSubmit ==
    [][\A k \in 1..MaxGen, data \in Guides :
          GenSuccess(k, data)
          => /\ state' = "SUCCESS"
             /\ studyData' = data
             /\ \E p \in 1..MaxPrefetch :
                   /\ prefetches[p].st = "free"
                   /\ prefetches'[p].st = "inflight"
                   /\ prefetches'[p].text = data
             /\ savedSessions' # <<>>
             /\ savedSessions'[1].data = data
             /\ savedSessions'[1].chatLog = <<>>
             /\ ~savedSessions'[1].isPinned
             /\ savedSessions'[1].id \notin Ids(savedSessions) \cup Ids(store)
             /\ {j \in 1..Len(savedSessions') :
                    savedSessions'[j].id \notin Ids(savedSessions) \cup Ids(gens[k].sessions)}
                  = {1}
             /\ activeSessionId' = savedSessions'[1].id
             /\ store' = savedSessions']_vars

\* A generation has succeeded: its session heads the list and is active.
C15_Witness ==
    /\ state = "SUCCESS"
    /\ studyData # 0
    /\ savedSessions # <<>>
    /\ savedSessions[1].id = activeSessionId
    /\ activeSessionId = nextId
    /\ savedSessions[1].chatLog = <<>>
    /\ ~savedSessions[1].isPinned
    /\ Len(savedSessions) = 2
    /\ savedSessions[2].id # activeSessionId
    /\ store = savedSessions
    /\ \E p \in 1..MaxPrefetch : prefetches[p].st = "inflight"
                                 /\ prefetches[p].text = studyData

\* C16: when the generation call fails, the orchestrator is in ERROR with a
\* non-empty user-facing message, the notes and selected file are unchanged
\* from what was submitted, and no session record is added to the list or
\* the store.
C16_FailedSubmit ==
    [][\A k \in 1..MaxGen :
          GenFailure(k)
          => /\ state' = "ERROR"
             /\ error'
             /\ notes' = gens[k].notes
             /\ selectedFile' = gens[k].file
             /\ UNCHANGED <<savedSessions, store>>]_vars

(***************************************************************************)
(* Properties of the session list, over SpecSessions                       *)
(***************************************************************************)

\* C17: every session-list mutation is applied to the list as it is at the
\* moment of the write, so that after any interleaving the list in memory
\* and the stored list reflect every mutation performed.
C17_NoLostUpdate ==
    /\ savedSessions = expected
    /\ store = expected

(***************************************************************************)
(* Properties of the word highlight, over SpecWords                        *)
(***************************************************************************)

\* Offset p (0-based) of wText holds a non-whitespace character.
InWord(p) == p \in 0..(Len(wText) - 1) /\ wText[p + 1] # " "

\* A maximal run of non-whitespace characters starts at offset s.
RunStart(s) == InWord(s) /\ ~InWord(s - 1)

\* The end offset of the run that starts at s: the offset after its last
\* character.
RunEnd(s) == CHOOSE e \in (s + 1)..Len(wText) :
                 ~InWord(e) /\ \A p \in s..(e - 1) : InWord(p)

\* The index, from 0, of the run that starts at s among the runs of wText.
RunIndex(s) == Cardinality({t \in 0..(s - 1) : RunStart(t)})

\* The starts of the runs whose bounds [start, end] contain offset c.
RunsAt(c) == {s \in 0..(Len(wText) - 1) : RunStart(s) /\ s <= c /\ c <= RunEnd(s)}

\* C18: for every summary text and every word-boundary event with character
\* index c, the highlight index becomes the index of the word segment (a
\* maximal run of non-whitespace characters with its start and end offsets)
\* whose bounds contain c, and an event whose index lies in no segment leaves
\* the highlight index unchanged; for "Hello world today" and c = 6 the
\* active segment is "world" with offsets 6 and 11.
C18_WordHighlight ==
    [][\A c \in 0..Len(wText) :
          onboundary(c)
          => /\ IF RunsAt(c) = {}
                THEN currentWordIndex' = currentWordIndex
                ELSE \E s \in RunsAt(c) :
                        /\ RunsAt(c) = {s}
                        /\ currentWordIndex' = RunIndex(s)
                        /\ wordSegmentsOf(wText)[currentWordIndex' + 1]
                             = [text |-> SubSeq(wText, s + 1, RunEnd(s)),
                                start |-> s, end |-> RunEnd(s)]
             /\ (wText = Example /\ c = 6)
                  => /\ currentWordIndex' = 1
                     /\ wordSegmentsOf(wText)[2]
                          = [text |-> <<"w", "o", "r", "l", "d">>,
                             start |-> 6, end |-> 11]]_vars

\* The example's event has been delivered: "world" is the active word.
C18_Witness ==
    /\ wText = Example
    /\ wChar = 6
    /\ currentWordIndex = 1

(***************************************************************************)
(* Properties of processLectureNotes, over SpecRetry                       *)
(***************************************************************************)

\* The guide has all required fields, exactly 10 vocabulary entries, exactly
\* 10 quiz items and every correctAnswerIndex within its options.
WellFormedGuide(guide) ==
    /\ guide.complete
    /\ guide.vocabulary = 10
    /\ guide.quiz = 10
    /\ guide.indexInRange

\* The response is empty, unparsable or lacks a required field.
Unusable(ans) ==
    \/ ans.t \in {"empty", "malformed"}
    \/ ans.t = "json" /\ ~ans.rawData.complete

\* C19: every StudyGuide that processLectureNotes returns has all required
\* fields, exactly 10 vocabulary entries, exactly 10 quiz items and
\* 0 <= correctAnswerIndex < options.length for every quiz item; a response
\* that is empty, unparsable or lacks a required field makes the call fail
\* with a synthesis-failed error instead of returning a guide.
C19_GuideWellFormed ==
    rCaller = "processLectureNotes"
    => /\ (rPc = "returned" /\ "guide" \in DOMAIN rResult)
            => WellFormedGuide(rResult.guide)
       /\ \A i \in 1..Len(rHist) :
             Unusable(rHist[i])
             => /\ rPc = "thrown"
                /\ rResult.err.kind = "synthesis_failed"

(***************************************************************************)
(* Properties of a failed compaction, over SpecCompact                     *)
(***************************************************************************)

\* C23: when the history has more than 10 turns and the summarization
\* request fails, askQuestionAboutDocumentStream fails without issuing the
\* streaming request (no contents are built with the older turns dropped and
\* the only step after the failure is the handler's catch), and the chat log
\* ends with the fallback apology after the turns of the exchange.
C23_CompactionFailure ==
    /\ [][SummarySettled([t |-> "error"])
            => (Len(cHistory) > Threshold /\ cPc' = "failed")]_vars
    /\ [](cPc \in {"failed", "caught"} => cProcessed = <<>>)
    /\ [][cPc = "failed"
            => /\ cPc' = "caught"
               /\ chatLog' = Append(cHistory, [role |-> "model", content |-> Apology])]_vars
    /\ [][cPc = "caught" => cPc' = "caught"]_vars

\* The summarization of the two oldest of twelve turns failed, and the chat
\* log ends with the apology.
C23_Witness ==
    /\ cPc = "caught"
    /\ Len(cHistory) = 12
    /\ cSummarized # <<>>
    /\ Len(chatLog) = 13
    /\ chatLog[13].content = Apology

(***************************************************************************)
(* Properties of a failed or interrupted exchange, over SpecChat           *)
(***************************************************************************)

\* C21: when the chat request or its stream fails, before the first chunk or
\* mid-stream, the chat log afterwards ends with the user's turn followed by
\* exactly one model turn carrying the fallback apology; no partially
\* streamed model turn is left, and the turns before the user's turn are the
\* turns the log had when the question was sent.
C21_FailureFallback ==
    [][ChatFailure
        => LET n == Len(chatLog')
               before == SubSeq(chat.newChatLog, 1, Len(chat.newChatLog) - 1)
           IN /\ n = Len(before) + 2
              /\ chatLog'[n] = [role |-> "model", content |-> Apology]
              /\ chatLog'[n - 1] = [role |-> "user", content |-> chat.userMsg]
              /\ SubSeq(chatLog', 1, n - 2) = before]_vars

\* An exchange on a log with an earlier exchange has failed: the log is the
\* earlier exchange, the question and the apology.
C21_Witness ==
    /\ chat.st = "free"
    /\ sent > 0
    /\ chatLog = StoredLog("a") \o <<[role |-> "user", content |-> <<"q">>],
                                    [role |-> "model", content |-> Apology]>>

\* C22: when a chat exchange completes, by success or by failure, the chat
\* log stored for the active session, in the session list and in the store,
\* equals the in-memory chat log, and the stored sessions other than the
\* active one are the ones stored before, with their chat logs unchanged.
C22_ChatPersistence ==
    [][(ChatStreamEnd \/ ChatFailure)
        => /\ store' = savedSessions'
           /\ Len(savedSessions') = Len(savedSessions)
           /\ \A j \in 1..Len(savedSessions') :
                 IF savedSessions'[j].id = activeSessionId'
                 THEN savedSessions'[j].chatLog = chatLog'
                 ELSE savedSessions'[j] = savedSessions[j]]_vars

(***************************************************************************)
(* Properties of loadSession and deleteSession                             *)
(***************************************************************************)

\* C24: after loadSession(s) the playback engine is in (none, idle), the
\* audio buffer cached before is cleared, the guide, chat log and notes are
\* those of s, s is the active session, the orchestrator is in SUCCESS and a
\* prefetch for the summary of s has been started.
C24_LoadSessionResets ==
    [][\A i \in 1..MaxSessions :
          loadSession(i)
            => /\ activeMode' = "none" /\ playbackState' = "idle"
               /\ sourceRef' = 0 /\ ~UtteranceActive'
               /\ prefetchedBuffer' = 0
               /\ studyData' = savedSessions[i].data
               /\ chatLog' = savedSessions[i].chatLog
               /\ notes' = savedSessions[i].notes
               /\ activeSessionId' = savedSessions[i].id
               /\ state' = "SUCCESS"
               /\ \E p \in 1..MaxPrefetch :
                     /\ prefetches[p].st = "free"
                     /\ prefetches'[p].st = "inflight"
                     /\ prefetches'[p].text = savedSessions[i].data]_vars

\* C25: deleteSession(id) removes exactly the session with that id from the
\* in-memory list and from the store, the others keeping their order; if it
\* was the active session, the orchestrator is reset to IDLE with guide, chat
\* log, notes and active id cleared and playback stopped; otherwise the
\* orchestrator state, guide, chat log, active id and playback state are
\* unchanged.
C25_DeleteSession ==
    [][\A i \in 1..MaxSessions :
          deleteSession(i)
            => /\ Len(savedSessions') = Len(savedSessions) - 1
               /\ \A j \in 1..Len(savedSessions') :
                     savedSessions'[j] = savedSessions[IF j < i THEN j ELSE j + 1]
               /\ store' = savedSessions'
               /\ IF activeSessionId = savedSessions[i].id
                  THEN /\ state' = "IDLE"
                       /\ studyData' = 0 /\ chatLog' = <<>> /\ notes' = ""
                       /\ activeSessionId' = 0
                       /\ activeMode' = "none" /\ playbackState' = "idle"
                       /\ sourceRef' = 0 /\ ~UtteranceActive'
                  ELSE UNCHANGED <<state, studyData, chatLog, activeSessionId,
                                   activeMode, playbackState, synth>>]_vars

\* The stored session has been deleted while the guide of the new session
\* was being read aloud: the new session alone is listed, and the reading
\* goes on.
C25_Witness ==
    /\ nextId = 2
    /\ Len(savedSessions) = 1
    /\ savedSessions[1].id = 2
    /\ store = savedSessions
    /\ activeSessionId = 2
    /\ activeMode = "active" /\ playbackState = "playing"
    /\ \A k \in 1..MaxGen : gens[k].st = "free"

(***************************************************************************)
(* Properties of Active Reader and of the audio prefetch, over Spec        *)
(***************************************************************************)

\* C26: when the utterance started by toggleActiveReader ends naturally, the
\* engine moves to (none, idle) and the highlight index is cleared, whatever
\* the playback state was when Active Reader was started.
C26_ReaderCompletion ==
    [][SpeechEnd => /\ activeMode' = "none"
                    /\ playbackState' = "idle"
                    /\ currentWordIndex' = NoWord]_vars

\* C27: a speech-engine error of the cancellation class causes no state
\* transition, while any other speech-engine error moves the engine to
\* (none, idle) with the highlight cleared.
C27_ReaderErrors ==
    [][\A err \in SpeechErrors :
          SpeechError(err)
            => IF err \in {"interrupted", "canceled"}
               THEN UNCHANGED <<activeMode, playbackState, currentWordIndex>>
               ELSE /\ activeMode' = "none"
                    /\ playbackState' = "idle"
                    /\ currentWordIndex' = NoWord]_vars

\* The step is the failure of an audio prefetch.
PrefetchFails == \E p \in 1..MaxPrefetch : PrefetchFailure(p) \/ PrefetchQuota(p)

TimerFires == \E t \in 1..MaxTimer : FallbackTimer(t)

\* C29: when the audio prefetch that follows a successful generation or a
\* loadSession fails on quota, Active Reader is started by the fallback
\* timer and reads the summary of the guide that is displayed.
C29_QuotaFallback ==
    [][(TimerFires /\ GuideShown)
        => /\ activeMode' = "active"
           /\ synth'.utt = "pending"
           /\ synth'.text = studyData]_vars

\* C30: while a chat stream is in flight, an arriving chunk modifies only
\* the model turn appended for that exchange: the chat log keeps its length,
\* and a turn that changes is the last turn of the log the exchange appended
\* its model turn to, also after a reset, a loadSession or the deletion of
\* the active session.
C30_OnlyOwnTurnMutated ==
    [][(\E text \in Deltas : ChatChunk(text))
        => /\ Len(chatLog') = Len(chatLog)
           /\ \A j \in 1..Len(chatLog) :
                 chatLog'[j] # chatLog[j] => (j = Len(chatLog) /\ chat.own)
           /\ UNCHANGED <<savedSessions, store>>]_vars

(***************************************************************************)
(* Properties of the quiz shuffle, over SpecQuiz                           *)
(***************************************************************************)

\* How many elements of seq equal t.
Count(seq, t) == Cardinality({k \in DOMAIN seq : seq[k] = t})

\* b holds the elements of a, each as many times as a does.
IsPermutation(a, b) ==
    /\ Len(a) = Len(b)
    /\ \A k \in DOMAIN a : Count(a, a[k]) = Count(b, a[k])

\* The question texts of a list, in order.
QuestionTexts(list) == [k \in DOMAIN list |-> list[k].question]

\* The step is a handleShuffleAndReset: no other handler fills the shuffled
\* list or leaves the results view.
ShuffleDone ==
    \/ shuffledQuestions = <<>> /\ shuffledQuestions' # <<>>
    \/ showResults /\ ~showResults'

\* C31: after handleShuffleAndReset the shuffled question list is a
\* permutation of the input list and the input is as it was; for every
\* question the shuffled options are a permutation of the original options,
\* and if its correctAnswerIndex was within range, the new index is within
\* range and points at the option the original index pointed at.
C31_ShuffleKeepsAnswerKey ==
    [][ShuffleDone
        => /\ questions' = questions
           /\ IsPermutation(QuestionTexts(questions), QuestionTexts(shuffledQuestions'))
           /\ \A k \in DOMAIN shuffledQuestions', i \in DOMAIN questions :
                 LET s == shuffledQuestions'[k]
                     q == questions[i]
                 IN s.question = q.question
                      => /\ IsPermutation(q.options, s.options)
                         /\ q.correctAnswerIndex \in 0..(Len(q.options) - 1)
                              => /\ s.correctAnswerIndex \in 0..(Len(s.options) - 1)
                                 /\ s.options[s.correctAnswerIndex + 1]
                                      = q.options[q.correctAnswerIndex + 1]]_vars

\* Two questions have been shuffled: their order is reversed, and the
\* correct option of question A has moved from the first place to the last.
C31_Witness ==
    /\ Len(questions) = 2
    /\ Len(shuffledQuestions) = 2
    /\ shuffledQuestions[1].question = "B"
    /\ questions[1].correctAnswerIndex = 0
    /\ questions[1].options = [k \in 1..MaxOptions |-> k]
    /\ shuffledQuestions[2].correctAnswerIndex = MaxOptions - 1
    /\ shuffledQuestions[2].options[MaxOptions] = 1

(***************************************************************************)
(* Mode and state agree                                                    *)
(***************************************************************************)

\* The source node sourceRef points at is playing.
PremiumResource == sourceRef # 0 /\ nodes[sourceRef].playing

\* C32: in every reachable state, activeMode 'none' implies playbackState
\* 'idle', no source node playing and no utterance in progress; and
\* playbackState 'playing' or 'paused' implies that activeMode is 'premium'
\* or 'active' and that the audio of that mode, and no other, is the one in
\* progress: a premium playback has its source node playing while 'playing'
\* and no utterance, the reader has its utterance and no source node.
C32_ModeStateAgree ==
    /\ activeMode = "none" =>
          playbackState = "idle" /\ ~PremiumSounding /\ ~UtteranceActive
    /\ playbackState \in {"playing", "paused"} =>
          /\ activeMode \in {"premium", "active"}
          /\ activeMode = "premium" =>
                /\ ~UtteranceActive
                /\ playbackState = "playing" => PremiumResource
          /\ activeMode = "active" => UtteranceActive /\ ~PremiumSounding

(***************************************************************************)
(* Natural completion of a premium playback                                *)
(***************************************************************************)

\* onended fires on the node the engine is playing, which no pause and no
\* stop has touched.
NaturalEnd == \E n \in 1..MaxNodes : n = sourceRef /\ AudioEnded(n)

\* C33: when the source node that playFromBuffer started plays its buffer out
\* and its onended fires, the engine moves to (none, idle) with played
\* offset 0, whether the playback was started from idle or resumed from
\* paused.
C33_PremiumNaturalCompletion ==
    [][NaturalEnd =>
          /\ activeMode' = "none"
          /\ playbackState' = "idle"
          /\ playedOffsetRef' = 0]_vars

(***************************************************************************)
(* The question in the streaming request                                   *)
(***************************************************************************)

\* The conversation before the send: the history without its last turn.
PriorTurns == SubSeq(cHistory, 1, Len(cHistory) - 1)

\* The call is one handleSendChatMessage makes: the history is the chat log
\* with the question appended as a user turn.
CalledBySend == cHistory # <<>> /\ cHistory = newChatLog(PriorTurns, cQuestion)

\* The prior turns, or their last Threshold turns when there are more.
PriorWindow ==
    IF Len(PriorTurns) > Threshold
    THEN slice(PriorTurns, Len(PriorTurns) - Threshold, Len(PriorTurns))
    ELSE PriorTurns

\* C34: the streaming request built for a send ends with the question as a
\* user turn, and the turns before it are exactly the prior turns of the
\* conversation, or their compacted window: the question is in the request
\* once, not twice.
C34_QuestionSentOnce ==
    (cPc = "requested" /\ CalledBySend) =>
        /\ cContents # <<>>
        /\ cContents[Len(cContents)] = FinalTurn(cQuestion, selectedFile)
        /\ SubSeq(cContents, 1, Len(cContents) - 1) = Contents(PriorWindow)

(***************************************************************************)
(* The cached audio and the guide displayed                                *)
(***************************************************************************)

\* C35: in every reachable state a cached audio buffer that is not null was
\* synthesized from the summary of the guide the orchestrator holds, also
\* when loadSession or reset happens while an earlier prefetch is in flight
\* and that prefetch settles afterwards.
C35_CachedAudioMatchesGuide ==
    prefetchedBuffer # 0 => prefetchedBuffer = studyData

(***************************************************************************)
(* The session in memory and the session list                              *)
(***************************************************************************)

\* C36: whenever an active session id is set and no chat exchange is in
\* flight, the session list has the active session, and the guide and the
\* chat log held in memory are that session's, also after reset or
\* loadSession was performed while a generation was loading and the
\* generation settled afterwards.
C36_SessionCoherence ==
    (activeSessionId # 0 /\ ~isChatLoading) =>
        \E j \in 1..Len(savedSessions) :
            /\ savedSessions[j].id = activeSessionId
            /\ savedSessions[j].data = studyData
            /\ savedSessions[j].chatLog = chatLog

(***************************************************************************)
(* Premium gating                                                          *)
(***************************************************************************)

\* C37: in every reachable state, premium neither locked nor unavailable
\* implies that a cached audio buffer exists; togglePremiumVoice changes
\* nothing of the engine while premium is locked or unavailable; and so no
\* call of togglePremiumVoice reaches its own synthesis request: a premium
\* start plays from the cached buffer.
C37_PremiumGating ==
    /\ ~(isPremiumLocked \/ isPremiumUnavailable) => prefetchedBuffer # 0
    /\ (isPremiumLocked \/ isPremiumUnavailable) => togglePremiumVoice(World, Cur) = World
    /\ ~ColdStart(Cur)

\* Premium is unlocked and a premium start plays the cached buffer.
C37_Witness ==
    /\ ~(isPremiumLocked \/ isPremiumUnavailable)
    /\ activeMode = "premium"
    /\ playbackState = "playing"
    /\ PremiumResource
    /\ nodes[sourceRef].buffer = prefetchedBuffer
    /\ nodes[sourceRef].offset = 0

(***************************************************************************)
(* Premium becomes usable, over SpecDevice                                 *)
(***************************************************************************)

\* A guide is displayed whose audio prefetch has succeeded, and nothing is in
\* flight: no submit, loadSession or reset came after it.
PrefetchSucceeded ==
    /\ GuideShown
    /\ prefetchedBuffer # 0
    /\ \A p \in 1..MaxPrefetch : prefetches[p].st = "free"
    /\ \A k \in 1..MaxGen : gens[k].st = "free"

\* togglePremiumVoice passes its guard (App.tsx:283).
PremiumUsable == ~(isPremiumLocked \/ isPremiumUnavailable)

\* C38: after a generation or loadSession whose audio prefetch succeeded,
\* premium eventually becomes unlocked, so that togglePremiumVoice can start
\* playback, unless a later submit, loadSession or reset intervenes; on every
\* device, whatever voices its speech engine reports.
C38_PremiumEventuallyUsable ==
    PrefetchSucceeded ~> (PremiumUsable \/ ~PrefetchSucceeded)

====
